---------------------------- MODULE Spec2Model ----------------------------
(***************************************************************************)
(* A model of the BlockModPy routing core: Network (name validation,       *)
(* socket lookup, connector adjustment), Block.socket_start_line,          *)
(* ConnectorSegmentItem._update_segments (segment drag) and                *)
(* SceneManager.merge_connector_segments (segment clean-up).               *)
(*                                                                         *)
(* Lengths.  The program computes with floats.  Here a length is an        *)
(* integer number of units of 1/Pixel of a pixel, with Pixel chosen so     *)
(* that the tolerance of Globals.near_zero (1e-6 of a grid cell, i.e.      *)
(* 8e-6 px) is 2 units: values of 1 unit are non-zero but "near zero".     *)
(*                                                                         *)
(* Strings.  A name is a sequence of characters (one-character strings;    *)
(* the sentinel label is kept as one token), so that splitting at the      *)
(* first "." and stripping blanks are computed as the code computes them.  *)
(***************************************************************************)
EXTENDS Integers, Sequences, FiniteSets

VARIABLES
    m_blocks,       \* Network.m_blocks: sequence of Block records
    m_connectors,   \* Network.m_connectors: sequence of Connector records
    m_segment_idx,  \* ConnectorSegmentItem.m_segment_idx of the item under the mouse (0-based; -1: none)
    moves,          \* the number of block moves so far
    last,           \* the last operation performed and its outcome (history)
    before,         \* m_connectors as they were before the last operation (history)
    hist,           \* the drag steps since the last merge: delta, and the segment
                    \* list and item index each started from; the mouse events
                    \* of a connection (history)
    ret,            \* what the last operation returned (<<>>: nothing)
    old_blocks,     \* m_blocks as they were before the last operation on blocks (history)
    m_currently_connecting,  \* SceneManager.m_currently_connecting
    m_block_connector_map,   \* SceneManager.m_block_connector_map: the set of pairs
                             \* <<a Block object, a Connector object mapped to it>>
    ids             \* the identities of the objects in m_blocks and in m_connectors
                    \* (Python's id()), and the next identity to be given out

vars == <<m_blocks, m_connectors, m_segment_idx, moves, last, before, hist, ret,
         old_blocks, m_currently_connecting, m_block_connector_map, ids>>

----------------------------------------------------------------------------
(* Globals *)

\* units per pixel (the resolution of the model's lengths)
Pixel == 250000

Million == 1000000

\* Globals.GridSpacing = 8.0 (pixels)
GridSpacing == 8 * Pixel

\* Globals.InvisibleLabel, kept as one token
InvisibleLabel == <<"[(-I am invisible-)]">>

Abs(d) == IF d < 0 THEN -d ELSE d

\* Globals.near_zero: abs(grid_distance / GridSpacing) < 1e-6
NearZero(grid_distance) == Abs(grid_distance) < GridSpacing \div Million

Horizontal == "Horizontal"
Vertical == "Vertical"

Point(x, y) == [x |-> x, y |-> y]

\* QPointF + QPointF
PAdd(p, q) == [x |-> p.x + q.x, y |-> p.y + q.y]

\* Connector.Segment(direction, offset)
Segment(direction, offset) == [m_direction |-> direction, m_offset |-> offset]

----------------------------------------------------------------------------
(* Sequence helpers *)

\* list.insert(0, e)
InsertFront(s, e) == <<e>> \o s

\* list.pop(i) for a 1-based position i
RemoveAt(s, i) == SubSeq(s, 1, i - 1) \o SubSeq(s, i + 1, Len(s))

\* the sum of the offsets of the segments of one direction
RECURSIVE SumDir(_, _)
SumDir(segs, dir) ==
    IF segs = <<>> THEN 0
    ELSE (IF Head(segs).m_direction = dir THEN Head(segs).m_offset ELSE 0)
         + SumDir(Tail(segs), dir)

----------------------------------------------------------------------------
(* Network._split_flat_name and Network.lookup_block_and_socket *)

IsBlank(c) == c = " "

\* str.strip()
RECURSIVE LStrip(_)
LStrip(s) == IF s # <<>> /\ IsBlank(Head(s)) THEN LStrip(Tail(s)) ELSE s

RECURSIVE RStrip(_)
RStrip(s) ==
    IF s # <<>> /\ IsBlank(s[Len(s)]) THEN RStrip(SubSeq(s, 1, Len(s) - 1)) ELSE s

Strip(s) == RStrip(LStrip(s))

\* "." in s
HasDot(s) == \E i \in 1..Len(s) : s[i] = "."

\* s.index("."), 1-based; only used when HasDot(s)
DotIndex(s) == CHOOSE i \in 1..Len(s) : s[i] = "." /\ \A j \in 1..(i - 1) : s[j] # "."

\* Network._split_flat_name: ok = FALSE stands for the RuntimeError "Bad flat name"
SplitFlatName(flat_name) ==
    IF ~HasDot(flat_name)
    THEN [ok |-> FALSE, block_name |-> <<>>, socket_name |-> <<>>]
    ELSE [ok |-> TRUE,
          block_name |-> Strip(SubSeq(flat_name, 1, DotIndex(flat_name) - 1)),
          socket_name |-> Strip(SubSeq(flat_name, DotIndex(flat_name) + 1, Len(flat_name)))]

\* next((i for i, e in enumerate(seq) if e.m_name == name), None); 0 stands for None
FirstNamed(seq, name) ==
    IF \E i \in 1..Len(seq) : seq[i].m_name = name
    THEN CHOOSE i \in 1..Len(seq) :
            seq[i].m_name = name /\ \A j \in 1..(i - 1) : seq[j].m_name # name
    ELSE 0

\* Network.lookup_block_and_socket: the positions of the block and of the socket
\* in it; ok = FALSE stands for the RuntimeError ("Bad flat name" / "Invalid flat name.")
LookupBlockAndSocket(blocks, flat_name) ==
    LET sp == SplitFlatName(flat_name)
        b  == FirstNamed(blocks, sp.block_name)
        s  == IF b = 0 THEN 0 ELSE FirstNamed(blocks[b].m_sockets, sp.socket_name)
    IN  IF sp.ok /\ b # 0 /\ s # 0
        THEN [ok |-> TRUE, block |-> b, socket |-> s]
        ELSE [ok |-> FALSE, block |-> 0, socket |-> 0]

----------------------------------------------------------------------------
(* Block.socket_start_line *)

\* SocketStartLine with the line ending where it starts
SocketStartLine_NoExtension(block, socket) ==
    LET base_pos ==
            IF block.m_name = InvisibleLabel THEN socket.m_pos
            ELSE IF socket.m_orientation = Horizontal
            THEN Point(IF socket.m_inlet THEN 0 ELSE block.m_size.w, block.m_size.h \div 2)
            ELSE Point(block.m_size.w \div 2, IF socket.m_inlet THEN 0 ELSE block.m_size.h)
    IN  [p1 |-> PAdd(base_pos, block.m_pos), p2 |-> PAdd(base_pos, block.m_pos)]

\* the extension line [p1, p2] of a socket of a block
SocketStartLine(block, socket) ==
    IF block.m_name = InvisibleLabel
    THEN LET start_point == PAdd(socket.m_pos, block.m_pos)
         IN  [p1 |-> start_point, p2 |-> start_point]
    ELSE LET direction == IF socket.m_inlet THEN -1 ELSE 1
             base_pos ==
                IF socket.m_orientation = Horizontal
                THEN Point(IF socket.m_inlet THEN 0 ELSE block.m_size.w,
                           block.m_size.h \div 2)
                ELSE Point(block.m_size.w \div 2,
                           IF socket.m_inlet THEN 0 ELSE block.m_size.h)
             end_offset ==
                IF socket.m_orientation = Horizontal
                THEN Point(GridSpacing * 2 * direction, 0)
                ELSE Point(0, GridSpacing * 2 * direction)
         IN  [p1 |-> PAdd(base_pos, block.m_pos),
              p2 |-> PAdd(PAdd(base_pos, end_offset), block.m_pos)]

----------------------------------------------------------------------------
(* Network.adjust_connector and Network.adjust_connectors *)

\* the position of the first segment of a direction, 0 when there is none
FirstOfDirection(segs, dir) ==
    IF \E i \in 1..Len(segs) : segs[i].m_direction = dir
    THEN CHOOSE i \in 1..Len(segs) :
            segs[i].m_direction = dir /\ \A j \in 1..(i - 1) : segs[j].m_direction # dir
    ELSE 0

\* Residual without the subtraction of the existing segments
Residual_NoSubtract(segs, d, dir) == d

\* the residual of one axis: every segment's offset is subtracted from the
\* accumulator of its own axis
Residual(segs, d, dir) == d - SumDir(segs, dir)

\* ApplyCorrection adding the residual to the first segment of the list,
\* whatever its direction
ApplyCorrection_FirstSegment(segs, dir, d) ==
    IF NearZero(d) THEN segs
    ELSE IF segs # <<>>
         THEN [segs EXCEPT ![1].m_offset = @ + d]
         ELSE Append(segs, Segment(dir, d))

\* ApplyCorrection putting a new segment at the head of the list
ApplyCorrection_InsertFront(segs, dir, d) ==
    IF NearZero(d) THEN segs
    ELSE LET i == FirstOfDirection(segs, dir)
         IN  IF i # 0
             THEN [segs EXCEPT ![i].m_offset = @ + d]
             ELSE InsertFront(segs, Segment(dir, d))

\* a non-zero residual is added to the first segment of its axis, or appended
\* as a new segment when the list holds none
ApplyCorrection(segs, dir, d) ==
    IF NearZero(d) THEN segs
    ELSE LET i == FirstOfDirection(segs, dir)
         IN  IF i # 0
             THEN [segs EXCEPT ![i].m_offset = @ + d]
             ELSE Append(segs, Segment(dir, d))

\* AdjustSegments appending a segment for an axis without a segment also
\* when its residual is zero
AdjustSegments_NoNearZeroTest(segs, dx, dy) ==
    LET Fix(s, dir, d) ==
            IF FirstOfDirection(s, dir) # 0 THEN ApplyCorrection(s, dir, d)
            ELSE Append(s, Segment(dir, d))
    IN  Fix(Fix(segs, Vertical, Residual(segs, dy, Vertical)),
            Horizontal, Residual(segs, dx, Horizontal))

\* the segment list after adjust_connector, (dx, dy) being the offset between
\* the two extension endpoints: the vertical axis is corrected first
AdjustSegments(segs, dx, dy) ==
    ApplyCorrection(
        ApplyCorrection(segs, Vertical, Residual(segs, dy, Vertical)),
        Horizontal, Residual(segs, dx, Horizontal))

\* the offset between the extension endpoints (p2 of socket_start_line) of a
\* connector's target and source; ok = FALSE when a reference does not resolve
EndpointGap(blocks, connector) ==
    LET src == LookupBlockAndSocket(blocks, connector.m_source_socket)
        tgt == LookupBlockAndSocket(blocks, connector.m_target_socket)
    IN  IF ~src.ok \/ ~tgt.ok
        THEN [ok |-> FALSE, dx |-> 0, dy |-> 0]
        ELSE LET start_line == SocketStartLine(blocks[src.block],
                                               blocks[src.block].m_sockets[src.socket])
                 end_line   == SocketStartLine(blocks[tgt.block],
                                               blocks[tgt.block].m_sockets[tgt.socket])
             IN  [ok |-> TRUE,
                  dx |-> end_line.p2.x - start_line.p2.x,
                  dy |-> end_line.p2.y - start_line.p2.y]

\* Network.adjust_connector: ok = FALSE stands for the RuntimeError of the
\* lookup, raised before anything is changed
AdjustConnector(blocks, connector) ==
    LET gap == EndpointGap(blocks, connector)
    IN  IF ~gap.ok
        THEN [ok |-> FALSE, connector |-> connector]
        ELSE [ok |-> TRUE,
              connector |-> [connector EXCEPT
                                !.m_segments = AdjustSegments(@, gap.dx, gap.dy)]]

\* Network.adjust_connectors from position i on: the first failure is printed
\* and raised again, which ends the loop
RECURSIVE AdjustConnectorsFrom(_, _, _)
AdjustConnectorsFrom(blocks, connectors, i) ==
    IF i > Len(connectors)
    THEN [ok |-> TRUE, connectors |-> connectors]
    ELSE LET r == AdjustConnector(blocks, connectors[i])
         IN  IF ~r.ok
             THEN [ok |-> FALSE, connectors |-> connectors]
             ELSE AdjustConnectorsFrom(blocks,
                                       [connectors EXCEPT ![i] = r.connector], i + 1)

AdjustConnectors(blocks, connectors) == AdjustConnectorsFrom(blocks, connectors, 1)

----------------------------------------------------------------------------
(* Network.check_names *)

\* two sockets of the list have the same name
DuplicateSocketName(sockets) ==
    \E i, j \in 1..Len(sockets) : i < j /\ sockets[i].m_name = sockets[j].m_name

\* BlockError without the test for a name seen before
BlockError_NoDuplicateTest(block, block_names) ==
    IF HasDot(block.m_name) THEN "Invalid Block ID name"
    ELSE IF DuplicateSocketName(block.m_sockets) THEN "Duplicate Socket ID name"
    ELSE ""

\* the checks of one block, block_names being the names of the blocks before
\* it: the error raised, "" for none
BlockError(block, block_names) ==
    IF HasDot(block.m_name) THEN "Invalid Block ID name"
    ELSE IF block.m_name \in block_names THEN "Duplicate Block ID name"
    ELSE IF DuplicateSocketName(block.m_sockets) THEN "Duplicate Socket ID name"
    ELSE ""

\* the loop over the blocks from position i on
RECURSIVE CheckBlocksFrom(_, _)
CheckBlocksFrom(blocks, i) ==
    IF i > Len(blocks) THEN ""
    ELSE LET e == BlockError(blocks[i], {blocks[j].m_name : j \in 1..(i - 1)})
         IN  IF e # "" THEN e ELSE CheckBlocksFrom(blocks, i + 1)

\* ConnectorError without the test of the target's polarity
ConnectorError_NoTargetTest(blocks, connector, connected_sockets) ==
    LET src == LookupBlockAndSocket(blocks, connector.m_source_socket)
        tgt == LookupBlockAndSocket(blocks, connector.m_target_socket)
    IN  IF ~src.ok \/ ~tgt.ok THEN "Invalid flat name."
        ELSE IF blocks[src.block].m_sockets[src.socket].m_inlet
             THEN "Invalid source socket (must be an outlet socket)."
        ELSE IF connector.m_target_socket \in connected_sockets
             THEN "Target socket connected twice!"
        ELSE ""

\* the checks of one connector, connected_sockets being the target references
\* of the connectors before it: the error raised, "" for none
ConnectorError(blocks, connector, connected_sockets) ==
    LET src == LookupBlockAndSocket(blocks, connector.m_source_socket)
        tgt == LookupBlockAndSocket(blocks, connector.m_target_socket)
    IN  IF ~src.ok \/ ~tgt.ok THEN "Invalid flat name."
        ELSE IF blocks[src.block].m_sockets[src.socket].m_inlet
             THEN "Invalid source socket (must be an outlet socket)."
        ELSE IF ~blocks[tgt.block].m_sockets[tgt.socket].m_inlet
             THEN "Invalid target socket (must be an inlet socket)."
        ELSE IF connector.m_target_socket \in connected_sockets
             THEN "Target socket connected twice!"
        ELSE ""

\* the loop over the connectors from position i on
RECURSIVE CheckConnectorsFrom(_, _, _)
CheckConnectorsFrom(blocks, connectors, i) ==
    IF i > Len(connectors) THEN ""
    ELSE LET e == ConnectorError(blocks, connectors[i],
                                 {connectors[j].m_target_socket : j \in 1..(i - 1)})
         IN  IF e # "" THEN e ELSE CheckConnectorsFrom(blocks, connectors, i + 1)

\* Network.check_names: the message of the RuntimeError raised, "" when the
\* network passes
CheckNames(blocks, connectors) ==
    LET e == CheckBlocksFrom(blocks, 1)
    IN  IF e # "" THEN e ELSE CheckConnectorsFrom(blocks, connectors, 1)

----------------------------------------------------------------------------
(* ConnectorSegmentItem._update_segments *)

\* the loop over the segments to the left of position i (0-based, downwards):
\* each pending delta goes into the nearest segment of its direction
RECURSIVE AbsorbLeft(_, _, _, _)
AbsorbLeft(segs, i, dx, dy) ==
    IF i < 0 \/ (NearZero(dx) /\ NearZero(dy))
    THEN [segs |-> segs, dx |-> dx, dy |-> dy]
    ELSE LET seg == segs[i + 1]
             takes_dx == ~NearZero(dx) /\ seg.m_direction = Horizontal
             takes_dy == ~NearZero(dy) /\ seg.m_direction = Vertical
         IN  AbsorbLeft([segs EXCEPT ![i + 1].m_offset =
                            @ + (IF takes_dx THEN dx ELSE 0) + (IF takes_dy THEN dy ELSE 0)],
                        i - 1,
                        IF takes_dx THEN 0 ELSE dx,
                        IF takes_dy THEN 0 ELSE dy)

\* InsertPending that drops what is pending
InsertPending_Dropped(st, dir, d) == st

\* what is still pending on one axis after the walk to the left: the dragged
\* segment takes it when it has that direction, else a new segment is
\* inserted at the head of the list and the dragged segment's index grows
InsertPending(st, dir, d) ==
    IF NearZero(d) THEN st
    ELSE IF st.segs[st.idx + 1].m_direction = dir
         THEN [st EXCEPT !.segs[st.idx + 1].m_offset = @ + d]
         ELSE [segs |-> InsertFront(st.segs, Segment(dir, d)), idx |-> st.idx + 1]

\* AbsorbRight adding the delta instead of subtracting it
RECURSIVE AbsorbRight_SameSign(_, _, _, _)
AbsorbRight_SameSign(segs, i, dx, dy) ==
    IF i >= Len(segs) \/ (NearZero(dx) /\ NearZero(dy))
    THEN [segs |-> segs, dx |-> dx, dy |-> dy]
    ELSE LET seg == segs[i + 1]
             takes_dx == ~NearZero(dx) /\ seg.m_direction = Horizontal
             takes_dy == ~NearZero(dy) /\ seg.m_direction = Vertical
         IN  AbsorbRight_SameSign(
                        [segs EXCEPT ![i + 1].m_offset =
                            @ + (IF takes_dx THEN dx ELSE 0) + (IF takes_dy THEN dy ELSE 0)],
                        i + 1,
                        IF takes_dx THEN 0 ELSE dx,
                        IF takes_dy THEN 0 ELSE dy)

\* the loop over the segments to the right of the dragged one, from position
\* i (0-based) upwards: the nearest segment of each direction gives up the delta
RECURSIVE AbsorbRight(_, _, _, _)
AbsorbRight(segs, i, dx, dy) ==
    IF i >= Len(segs) \/ (NearZero(dx) /\ NearZero(dy))
    THEN [segs |-> segs, dx |-> dx, dy |-> dy]
    ELSE LET seg == segs[i + 1]
             takes_dx == ~NearZero(dx) /\ seg.m_direction = Horizontal
             takes_dy == ~NearZero(dy) /\ seg.m_direction = Vertical
         IN  AbsorbRight([segs EXCEPT ![i + 1].m_offset =
                            @ - (IF takes_dx THEN dx ELSE 0) - (IF takes_dy THEN dy ELSE 0)],
                         i + 1,
                         IF takes_dx THEN 0 ELSE dx,
                         IF takes_dy THEN 0 ELSE dy)

\* AppendPending appending the deltas with their sign kept
AppendPending_SameSign(segs, dx, dy) ==
    LET s1 == IF NearZero(dx) THEN segs ELSE Append(segs, Segment(Horizontal, dx))
    IN  IF NearZero(dy) THEN s1 ELSE Append(s1, Segment(Vertical, dy))

\* what is still pending after the walk to the right is appended as new
\* segments of the opposite offset
AppendPending(segs, dx, dy) ==
    LET s1 == IF NearZero(dx) THEN segs ELSE Append(segs, Segment(Horizontal, -dx))
    IN  IF NearZero(dy) THEN s1 ELSE Append(s1, Segment(Vertical, -dy))

\* ConnectorSegmentItem._update_segments(move_dist) for the item whose
\* m_segment_idx is idx (0-based): the segment list and the item's index after it
UpdateSegments(segs, idx, dx, dy) ==
    LET left  == AbsorbLeft(segs, idx - 1, dx, dy)
        mid   == InsertPending(
                     InsertPending([segs |-> left.segs, idx |-> idx], Horizontal, left.dx),
                     Vertical, left.dy)
        right == AbsorbRight(mid.segs, mid.idx + 1, dx, dy)
    IN  [segs |-> AppendPending(right.segs, right.dx, right.dy), idx |-> mid.idx]

----------------------------------------------------------------------------
(* SceneManager.merge_connector_segments *)

\* the scan of one pass, from position i (0-based) on: a segment of the
\* direction of its predecessor is folded into it; the scan stops at the first
\* near-zero segment, else with i at the last position.  st.upd is update_segments
RECURSIVE MergeScan(_, _)
MergeScan(st, i) ==
    LET seg  == st.segs[i + 1]
        fold == i > 0 /\ st.segs[i].m_direction = seg.m_direction
        st1  == IF fold
                THEN [st EXCEPT !.segs[i].m_offset = @ + seg.m_offset,
                                !.segs[i + 1].m_offset = 0,
                                !.upd = TRUE]
                ELSE st
    IN  IF NearZero(st1.segs[i + 1].m_offset) \/ i + 1 >= Len(st.segs)
        THEN [st |-> st1, i |-> i]
        ELSE MergeScan(st1, i + 1)

\* the segment item of position i (0-based) is removed: st.idx, the index of
\* the item under the mouse, becomes -1 when it is that item, and is
\* decremented when reindex is set and it lies behind i
PopSegment(st, i, reindex) ==
    [st EXCEPT !.segs = RemoveAt(@, i + 1),
               !.idx = IF @ = i THEN -1
                       ELSE IF reindex /\ @ > i THEN @ - 1
                       ELSE @]

\* MergeRemove that removes nothing
MergeRemove_KeepsSegments(st, i) == st

\* what follows the scan of a pass that ended at position i (0-based)
MergeRemove(st, i) ==
    IF i = 0 THEN PopSegment(st, 0, TRUE)
    ELSE IF i = Len(st.segs) - 1 THEN PopSegment(st, i, FALSE)
    ELSE LET st1 == PopSegment(st, i, TRUE)
         IN  IF i > 0 /\ st1.segs[i].m_direction = st1.segs[i + 1].m_direction
             THEN PopSegment([st1 EXCEPT !.segs[i].m_offset = @ + st1.segs[i + 1].m_offset,
                                         !.upd = TRUE],
                             i, TRUE)
             ELSE st1

\* MergeLoop with a loop that is never entered
MergeLoop_NeverEntered(st, i) == st

\* the outer loop "while i < len(segment_items)"; i is 0 whenever it is tested
RECURSIVE MergeLoop(_, _)
MergeLoop(st, i) ==
    IF ~(i < Len(st.segs)) THEN st
    ELSE LET sc == MergeScan(st, 0)
         IN  IF sc.i = Len(sc.st.segs) THEN sc.st
             ELSE MergeLoop(MergeRemove(sc.st, sc.i), 0)

\* SceneManager.merge_connector_segments(con), every segment of con having its
\* segment item: the segment list, the index of the item under the mouse, and
\* update_segments
MergeConnectorSegments(segs, idx) ==
    MergeLoop([segs |-> segs, idx |-> idx, upd |-> FALSE], 0)

----------------------------------------------------------------------------
(* Socket.direction, BlockItem.resize, Block.find_socket_insert_position,  *)
(* Block.unused_socket_spots, Block.auto_update_sockets                    *)

\* Socket.direction()
Direction(socket) ==
    IF socket.m_orientation = Horizontal
    THEN (IF socket.m_pos.x = 0 THEN "Left" ELSE "Right")
    ELSE (IF socket.m_pos.y = 0 THEN "Top" ELSE "Bottom")

\* ResizeSocket moving every socket to the far edge
ResizeSocket_Unconditional(socket, new_width, new_height) ==
    IF socket.m_orientation = Horizontal
    THEN [socket EXCEPT !.m_pos.x = new_width]
    ELSE [socket EXCEPT !.m_pos.y = new_height]

\* BlockItem.resize, one socket: a socket off the near edge goes to the far edge
ResizeSocket(socket, new_width, new_height) ==
    IF socket.m_orientation = Horizontal
    THEN (IF socket.m_pos.x # 0 THEN [socket EXCEPT !.m_pos.x = new_width] ELSE socket)
    ELSE (IF socket.m_pos.y # 0 THEN [socket EXCEPT !.m_pos.y = new_height] ELSE socket)

\* BlockItem.resize(new_width, new_height): the block afterwards
Resize(block, new_width, new_height) ==
    [block EXCEPT !.m_size = [w |-> new_width, h |-> new_height],
                  !.m_sockets = [i \in 1..Len(block.m_sockets) |->
                                    ResizeSocket(block.m_sockets[i], new_width, new_height)]]

\* int(x): truncation of a length to whole pixels
IntPx(x) == IF x >= 0 THEN x \div Pixel ELSE -((-x) \div Pixel)

\* int(x / Globals.GridSpacing + 0.5)
GridIndex(x) ==
    LET n == 2 * x + GridSpacing
    IN  IF n >= 0 THEN n \div (2 * GridSpacing) ELSE -((-n) \div (2 * GridSpacing))

\* the elements of seq at the positions in S, in order
RECURSIVE SelectIdx(_, _, _)
SelectIdx(seq, S, i) ==
    IF i > Len(seq) THEN <<>>
    ELSE (IF i \in S THEN <<seq[i]>> ELSE <<>>) \o SelectIdx(seq, S, i + 1)

\* Block.filter_sockets(inlet_socket)
FilterSockets(block, inlet_socket) ==
    LET Test(socket) == socket.m_inlet = inlet_socket
    IN  SelectIdx(block.m_sockets,
                  {k \in 1..Len(block.m_sockets) : Test(block.m_sockets[k])}, 1)

\* the least index (0-based) of a list of counts whose count is 0; -1: none
FirstFree(spots) ==
    IF \E i \in 1..Len(spots) : spots[i] = 0
    THEN (CHOOSE i \in 1..Len(spots) :
              spots[i] = 0 /\ \A j \in 1..(i - 1) : spots[j] # 0) - 1
    ELSE -1

\* Block.find_socket_insert_position(inlet_socket): <<x, y>>
FindSocketInsertPosition(block, inlet_socket) ==
    LET row_count == GridIndex(block.m_size.h)
        col_count == GridIndex(block.m_size.w)
        target_sockets == FilterSockets(block, inlet_socket)
        \* vertical_sockets[i], i 0-based
        vertical_sockets == [i \in 1..(row_count - 1) |->
            IF \E k \in 1..Len(target_sockets) :
                   /\ target_sockets[k].m_pos.y # 0
                   /\ GridIndex(target_sockets[k].m_pos.y) = i - 1
                   /\ 0 < i - 1 /\ i - 1 < row_count - 1
            THEN 1 ELSE 0]
        horizontal_sockets == [i \in 1..(col_count - 1) |->
            IF \E k \in 1..Len(target_sockets) :
                   /\ target_sockets[k].m_pos.y = 0
                   /\ GridIndex(target_sockets[k].m_pos.x) = i - 1
                   /\ 0 <= i - 1 /\ i - 1 < col_count - 1
            THEN 1 ELSE 0]
    IN  IF FirstFree(vertical_sockets) >= 0 THEN <<0, FirstFree(vertical_sockets)>>
        ELSE IF FirstFree(horizontal_sockets) >= 0 THEN <<FirstFree(horizontal_sockets), 0>>
        ELSE <<col_count - 1, 0>>

\* the edge of the block a socket is counted on by unused_socket_spots, and
\* its index there (0-based); "none": not counted
SpotOf(block, socket) ==
    LET row_count == GridIndex(block.m_size.h)
        col_count == GridIndex(block.m_size.w)
        col_idx == GridIndex(socket.m_pos.x)
        row_idx == GridIndex(socket.m_pos.y)
    IN  IF IntPx(socket.m_pos.x) = 0 /\ 0 < row_idx /\ row_idx < row_count
        THEN [edge |-> "left", idx |-> row_idx]
        ELSE IF IntPx(socket.m_pos.x) = IntPx(block.m_size.w)
                /\ 0 < row_idx /\ row_idx < row_count
        THEN [edge |-> "right", idx |-> row_idx]
        ELSE IF IntPx(socket.m_pos.y) = 0 /\ 0 < col_idx /\ col_idx < col_count
        THEN [edge |-> "top", idx |-> col_idx]
        ELSE IF IntPx(socket.m_pos.y) = IntPx(block.m_size.h)
                /\ 0 < col_idx /\ col_idx < col_count
        THEN [edge |-> "bottom", idx |-> col_idx]
        ELSE [edge |-> "none", idx |-> 0]

\* Block.unused_socket_spots(): per edge, the number of sockets at each index
\* (element i + 1 is the count of index i)
UnusedSocketSpots(block) ==
    LET row_count == GridIndex(block.m_size.h)
        col_count == GridIndex(block.m_size.w)
        Count(edge, idx) ==
            Cardinality({k \in 1..Len(block.m_sockets) :
                            SpotOf(block, block.m_sockets[k]) = [edge |-> edge, idx |-> idx]})
    IN  [left   |-> [i \in 1..row_count |-> Count("left", i - 1)],
         top    |-> [i \in 1..col_count |-> Count("top", i - 1)],
         right  |-> [i \in 1..row_count |-> Count("right", i - 1)],
         bottom |-> [i \in 1..col_count |-> Count("bottom", i - 1)]]

\* x in list
InList(list, x) == \E k \in 1..Len(list) : list[k] = x

\* KeepSocket looking at the name only
KeepSocket_IgnorePolarity(socket, inlet_sockets, outlet_sockets) ==
    InList(inlet_sockets, socket.m_name) \/ InList(outlet_sockets, socket.m_name)

\* auto_update_sockets: an existing socket stays when its name is required
\* with its polarity
KeepSocket(socket, inlet_sockets, outlet_sockets) ==
    \/ socket.m_inlet /\ InList(inlet_sockets, socket.m_name)
    \/ ~socket.m_inlet /\ InList(outlet_sockets, socket.m_name)

\* auto_update_sockets: the socket created for a required name that is
\* missing, placed at the first free spot of st (sockets and spot counts), and
\* st with the socket appended and its spot taken
PlaceSocket(size, st, s, inlet) ==
    LET row == FirstFree(IF inlet THEN st.left ELSE st.right)
        col == FirstFree(IF inlet THEN st.top ELSE st.bottom)
        new_socket ==
            IF row >= 0
            THEN [m_name |-> s, m_inlet |-> inlet, m_orientation |-> Horizontal,
                  m_pos |-> Point(IF inlet THEN 0 ELSE size.w, row * GridSpacing)]
            ELSE IF col >= 0
            THEN [m_name |-> s, m_inlet |-> inlet, m_orientation |-> Vertical,
                  m_pos |-> Point(col * GridSpacing, IF inlet THEN 0 ELSE size.h)]
            ELSE [m_name |-> s, m_inlet |-> inlet, m_orientation |-> Horizontal,
                  m_pos |-> Point(size.w - GridSpacing, IF inlet THEN 0 ELSE size.h)]
        st1 == IF row >= 0
               THEN (IF inlet THEN [st EXCEPT !.left[row + 1] = 1]
                              ELSE [st EXCEPT !.right[row + 1] = 1])
               ELSE IF col >= 0
               THEN (IF inlet THEN [st EXCEPT !.top[col + 1] = 1]
                              ELSE [st EXCEPT !.bottom[col + 1] = 1])
               ELSE st
    IN  [st1 EXCEPT !.sockets = Append(@, new_socket)]

\* auto_update_sockets: the loop over the required names, from position i on
RECURSIVE PlaceMissingFrom(_, _, _, _, _)
PlaceMissingFrom(size, st, all_sockets, inlet_sockets, i) ==
    IF i > Len(all_sockets) THEN st
    ELSE LET s == all_sockets[i]
         IN  IF \E k \in 1..Len(st.sockets) : st.sockets[k].m_name = s
             THEN PlaceMissingFrom(size, st, all_sockets, inlet_sockets, i + 1)
             ELSE PlaceMissingFrom(size, PlaceSocket(size, st, s, InList(inlet_sockets, s)),
                                   all_sockets, inlet_sockets, i + 1)

\* Block.auto_update_sockets(inlet_sockets, outlet_sockets): the block afterwards
AutoUpdateSockets(block, inlet_sockets, outlet_sockets) ==
    LET Keep(socket) == KeepSocket(socket, inlet_sockets, outlet_sockets)
        kept == {k \in 1..Len(block.m_sockets) : Keep(block.m_sockets[k])}
        remaining == [block EXCEPT !.m_sockets = SelectIdx(block.m_sockets, kept, 1)]
        spots == UnusedSocketSpots(remaining)
        st == PlaceMissingFrom(block.m_size,
                               [sockets |-> remaining.m_sockets, left |-> spots.left,
                                top |-> spots.top, right |-> spots.right,
                                bottom |-> spots.bottom],
                               inlet_sockets \o outlet_sockets, inlet_sockets, 1)
    IN  [block EXCEPT !.m_sockets = st.sockets]

----------------------------------------------------------------------------
(* Network.remove_block *)

\* str.startswith
StartsWith(str, prefix) ==
    Len(str) >= Len(prefix) /\ SubSeq(str, 1, Len(prefix)) = prefix

\* remove_block: the connector counts as related to the block of that name
ReferencesBlock(connector, block_name) ==
    \/ StartsWith(connector.m_source_socket, block_name \o <<".">>)
    \/ StartsWith(connector.m_target_socket, block_name \o <<".">>)

\* Network.remove_block(block_idx), block_idx 0-based: ok = FALSE stands for
\* the IndexError
RemoveBlock(blocks, connectors, block_idx) ==
    IF block_idx >= Len(blocks)
    THEN [ok |-> FALSE, blocks |-> blocks, connectors |-> connectors]
    ELSE LET block_name == blocks[block_idx + 1].m_name
             Keep(connector) == ~ReferencesBlock(connector, block_name)
         IN  [ok |-> TRUE,
              blocks |-> RemoveAt(blocks, block_idx + 1),
              connectors |-> SelectIdx(connectors,
                                       {k \in 1..Len(connectors) : Keep(connectors[k])}, 1)]

----------------------------------------------------------------------------
(* The networks the specifications start from *)

\* the longest segment list a connector starts with
MaxSegs == 2

\* the number of times blocks are moved, at most
MaxMoves == 1

Px(n) == n * Pixel

\* Socket
Socket(name, pos, orientation, inlet) ==
    [m_name |-> name, m_pos |-> pos, m_orientation |-> orientation, m_inlet |-> inlet]

\* Block(name, x, y): m_size is QSizeF(100, 50)
Block(name, pos, sockets) ==
    [m_name |-> name, m_pos |-> pos, m_size |-> [w |-> Px(100), h |-> Px(50)],
     m_sockets |-> sockets]

\* Connector
Connector(name, source, target, segs) ==
    [m_name |-> name, m_source_socket |-> source, m_target_socket |-> target,
     m_segments |-> segs]

\* identities are not looked at where no SceneManager is involved
NoIds == [blocks |-> <<>>, connectors |-> <<>>, next |-> 0]

\* the helper block and socket of SceneManager.start_socket_connection
HelperBlock(pos) ==
    [m_name |-> InvisibleLabel, m_pos |-> pos, m_size |-> [w |-> Px(20), h |-> Px(20)],
     m_sockets |-> <<Socket(InvisibleLabel, Point(0, 0), Horizontal, TRUE)>>]

\* a block with one outlet "o" and one inlet "i", both of one orientation
PlainBlock(name, pos, orientation) ==
    Block(name, pos,
          <<Socket(<<"o">>,
                   IF orientation = Horizontal THEN Point(Px(100), Px(24))
                                               ELSE Point(Px(48), Px(50)),
                   orientation, FALSE),
            Socket(<<"i">>,
                   IF orientation = Horizontal THEN Point(0, Px(24))
                                               ELSE Point(Px(48), 0),
                   orientation, TRUE)>>)

\* segment offsets: a grid cell, and one unit (non-zero, near zero)
Offsets == {1, GridSpacing}

Segments == {Segment(d, o) : d \in {Horizontal, Vertical}, o \in Offsets}

\* the segment lists of at most n segments
SegLists(n) == UNION {[1..k -> Segments] : k \in 0..n}

\* block positions as read from a file: on the grid, off the grid, and off the
\* grid by one unit
InitPositions ==
    {Point(Px(300), 0), Point(Px(300) + 1, Px(8)), Point(Px(4), Px(104)),
     Point(Px(132) + 1, 0)}

\* socket references
RefAo == <<"A", ".", "o">>
RefAi == <<"A", ".", "i">>
RefBo == <<"B", ".", "o">>
RefBi == <<"B", ".", "i">>
RefXi == <<"X", ".", "i">>
RefNoDot == <<"A", "o">>
RefHelper == InvisibleLabel \o <<".">> \o InvisibleLabel

\* the connector lists: (source, target) per connector
ConnectorRefs ==
    { <<<<RefAo, RefBi>>>>,
      <<<<RefAo, RefBi>>, <<RefBo, RefAi>>>>,
      <<<<RefAo, RefXi>>, <<RefBo, RefAi>>>>,
      <<<<RefBo, RefAi>>, <<RefNoDot, RefBi>>>>,
      <<<<RefAo, RefHelper>>>> }

\* the segment lists a second connector starts with
OtherSegLists == {<<>>, <<Segment(Horizontal, GridSpacing)>>}

\* the orientations of the sockets of block A and of block B
SocketOrientations ==
    {<<Horizontal, Horizontal>>, <<Vertical, Vertical>>, <<Horizontal, Vertical>>}

InitNetworks ==
    { [blocks |-> <<PlainBlock(<<"A">>, Point(0, 0), o[1]), PlainBlock(<<"B">>, pb, o[2])>>
                  \o (IF refs[Len(refs)][2] = RefHelper THEN <<HelperBlock(pb)>> ELSE <<>>),
       connectors |-> [i \in 1..Len(refs) |->
                          Connector(<<"c">>, refs[i][1], refs[i][2],
                                    IF i = 1 THEN s1 ELSE s2)]] :
        o \in SocketOrientations, pb \in InitPositions, refs \in ConnectorRefs,
        s1 \in SegLists(MaxSegs), s2 \in OtherSegLists }

----------------------------------------------------------------------------
(* Specification Spec: a network whose blocks move and whose connectors    *)
(* are adjusted                                                            *)

\* op: the operation; con: the connector it was given; ok: it raised nothing;
\* changed: it changed the connector list; again: it is an adjust_connector that
\* directly follows a successful adjust_connector of the same connector;
\* first_changed: that earlier call changed the connector; error: the
\* message of the error raised
NoOp ==
    [op |-> "init", con |-> 0, ok |-> TRUE, changed |-> FALSE, again |-> FALSE,
     first_changed |-> FALSE, error |-> ""]

Init ==
    /\ \E n \in InitNetworks :
          /\ m_blocks = n.blocks
          /\ m_connectors = n.connectors
    /\ m_segment_idx = -1
    /\ moves = 0
    /\ last = NoOp
    /\ before = m_connectors
    /\ hist = <<>>
    /\ ret = <<>>
    /\ old_blocks = m_blocks
    /\ m_currently_connecting = FALSE
    /\ m_block_connector_map = {}
    /\ ids = NoIds

\* the position BlockItem.itemChange snaps a dragged block to (a multiple of
\* the grid spacing)
SnappedPositions == {Point(GridSpacing * 38, GridSpacing)}

\* BlockItem.itemChange(ItemPositionChange): the block takes the snapped
\* position; the call of block_moved with two arguments then fails (TypeError)
\* before any connector is adjusted
MoveBlock(b, pos) ==
    /\ moves < MaxMoves
    /\ m_blocks[b].m_pos # pos
    /\ m_blocks' = [m_blocks EXCEPT ![b].m_pos = pos]
    /\ moves' = moves + 1
    /\ before' = m_connectors
    /\ last' = [NoOp EXCEPT !.op = "move", !.ok = FALSE]
    /\ old_blocks' = m_blocks
    /\ UNCHANGED <<m_connectors, m_segment_idx, hist, ret,
                     m_currently_connecting, m_block_connector_map, ids>>

\* Network.adjust_connector(m_connectors[c])
DoAdjustConnector(c) ==
    LET r == AdjustConnector(m_blocks, m_connectors[c])
    IN  /\ m_connectors' = [m_connectors EXCEPT ![c] = r.connector]
        /\ before' = m_connectors
        /\ last' = [op |-> "adjust_connector", con |-> c, ok |-> r.ok,
                    changed |-> (r.connector # m_connectors[c]),
                    again |-> (last.op = "adjust_connector" /\ last.con = c /\ last.ok),
                    first_changed |-> (last.op = "adjust_connector" /\ last.con = c
                                        /\ last.ok /\ last.changed),
                    error |-> IF r.ok THEN "" ELSE "Invalid flat name."]
        /\ UNCHANGED <<m_blocks, m_segment_idx, moves, hist, ret,
                     old_blocks, m_currently_connecting, m_block_connector_map, ids>>

\* Network.adjust_connectors()
DoAdjustConnectors ==
    LET r == AdjustConnectors(m_blocks, m_connectors)
    IN  /\ m_connectors' = r.connectors
        /\ before' = m_connectors
        /\ last' = [NoOp EXCEPT !.op = "adjust_connectors", !.ok = r.ok,
                                  !.changed = (r.connectors # m_connectors),
                                  !.error = IF r.ok THEN "" ELSE "Invalid flat name."]
        /\ UNCHANGED <<m_blocks, m_segment_idx, moves, hist, ret,
                     old_blocks, m_currently_connecting, m_block_connector_map, ids>>

Next ==
    \/ \E b \in 1..Len(m_blocks), pos \in SnappedPositions : MoveBlock(b, pos)
    \/ \E c \in 1..Len(m_connectors) : DoAdjustConnector(c)
    \/ DoAdjustConnectors

Spec == Init /\ [][Next]_vars

----------------------------------------------------------------------------
(* Claims about Network.adjust_connector and adjust_connectors (Spec) *)

\* what is left, on each axis, between the end of a connector's path and the
\* target's extension endpoint
PathError(blocks, connector) ==
    LET gap == EndpointGap(blocks, connector)
    IN  [x |-> gap.dx - SumDir(connector.m_segments, Horizontal),
         y |-> gap.dy - SumDir(connector.m_segments, Vertical)]

Adjusted == last.op = "adjust_connector" /\ last.ok

\* C1 as stated: after adjust_connector(c) the Horizontal offsets of c sum to
\* exactly the x distance, and its Vertical offsets to exactly the y distance,
\* between the source's and the target's extension endpoints
C1_PathClosesExactly ==
    Adjusted =>
        LET e == PathError(m_blocks, m_connectors[last.con])
        IN  e.x = 0 /\ e.y = 0

\* C1 as amended: after adjust_connector(c) the path of c ends within the
\* near-zero tolerance of the target's extension endpoint on each axis, and
\* exactly at it on every axis whose error before the call was not near zero
C1_PathClosesNearZero ==
    Adjusted =>
        LET e == PathError(m_blocks, m_connectors[last.con])
            b == PathError(m_blocks, before[last.con])
        IN  /\ NearZero(e.x) /\ NearZero(e.y)
            /\ ~NearZero(b.x) => e.x = 0
            /\ ~NearZero(b.y) => e.y = 0

\* a block was moved and the adjustment then changed segments of a connector
\* that had some
C1_Witness ==
    /\ Adjusted /\ last.changed /\ moves > 0
    /\ before[last.con].m_segments # <<>>

\* C2: adjust_connector(c) directly after a successful adjust_connector(c),
\* nothing having changed in between, leaves the connector as the first call
\* left it
C2_AdjustIdempotent ==
    (Adjusted /\ last.again) => m_connectors = before

\* the second of two adjustments in a row, the first of which changed a
\* non-empty segment list
C2_Witness ==
    /\ Adjusted /\ last.again /\ last.first_changed
    /\ Len(m_connectors[last.con].m_segments) > 1

\* C10 as stated: after adjust_connectors every connector whose references
\* resolve has a path that closes (within the near-zero tolerance), also when
\* the adjustment of another connector of the list failed
C10_BulkAdjustContinues ==
    last.op = "adjust_connectors" =>
        \A c \in 1..Len(m_connectors) :
            EndpointGap(m_blocks, m_connectors[c]).ok =>
                LET e == PathError(m_blocks, m_connectors[c])
                IN  NearZero(e.x) /\ NearZero(e.y)

----------------------------------------------------------------------------
(* Specification SpecNames: networks as read from a file, validated by     *)
(* Network.check_names                                                     *)

\* the longest connector list of a network to validate
MaxConnectors == 2

\* block names: empty, plain, and with the separator in it
BlockNames == {<<>>, <<"A">>, <<"B">>, <<"A", ".", "B">>}

\* socket lists: an outlet "o" and an inlet "i", or two sockets named "i"
SocketLists ==
    { <<Socket(<<"o">>, Point(Px(100), Px(24)), Horizontal, FALSE),
        Socket(<<"i">>, Point(0, Px(24)), Horizontal, TRUE)>>,
      <<Socket(<<"i">>, Point(0, Px(24)), Horizontal, TRUE),
        Socket(<<"i">>, Point(0, Px(32)), Horizontal, TRUE)>> }

\* the block lists: two blocks
BlockLists ==
    { <<Block(n1, Point(0, 0), s1), Block(n2, Point(Px(300), 0), s2)>> :
        n1 \in BlockNames, n2 \in BlockNames, s1 \in SocketLists, s2 \in SocketLists }

\* a reference written with a blank after the separator
RefBiBlank == <<"B", ".", " ", "i">>

SourceRefs == {RefAo, RefAi, RefNoDot}
\* a reference written with a blank before the separator
RefBBlankDot == <<"B", " ", ".", "i">>

TargetRefs == {RefBi, RefBiBlank, RefBBlankDot, RefBo, RefXi}

ConnectorChoices ==
    { Connector(<<"c">>, src, tgt, <<>>) : src \in SourceRefs, tgt \in TargetRefs }

ConnectorLists == UNION {[1..k -> ConnectorChoices] : k \in 0..MaxConnectors}

InitNames ==
    /\ m_blocks \in BlockLists
    /\ m_connectors \in ConnectorLists
    /\ m_segment_idx = -1
    /\ moves = 0
    /\ last = NoOp
    /\ before = m_connectors
    /\ hist = <<>>
    /\ ret = <<>>
    /\ old_blocks = m_blocks
    /\ m_currently_connecting = FALSE
    /\ m_block_connector_map = {}
    /\ ids = NoIds

\* Network.check_names()
DoCheckNames ==
    LET e == CheckNames(m_blocks, m_connectors)
    IN  /\ last.op = "init"
        /\ last' = [NoOp EXCEPT !.op = "check_names", !.ok = (e = ""), !.error = e]
        /\ before' = m_connectors
        /\ UNCHANGED <<m_blocks, m_connectors, m_segment_idx, moves, hist, ret,
                     old_blocks, m_currently_connecting, m_block_connector_map, ids>>

\* Network.remove_block(block_idx), block_idx 0-based
DoRemoveBlock(block_idx) ==
    LET r == RemoveBlock(m_blocks, m_connectors, block_idx)
    IN  /\ last.op = "init"
        /\ m_blocks' = r.blocks
        /\ m_connectors' = r.connectors
        /\ old_blocks' = m_blocks
        /\ before' = m_connectors
        /\ last' = [NoOp EXCEPT !.op = "remove_block", !.con = block_idx, !.ok = r.ok,
                                  !.changed = (r.connectors # m_connectors),
                                  !.error = IF r.ok THEN "" ELSE "Block index out of range."]
        /\ UNCHANGED <<m_segment_idx, moves, hist, ret,
                       m_currently_connecting, m_block_connector_map, ids>>

NextNames ==
    \/ DoCheckNames
    \/ \E block_idx \in 0..Len(m_blocks) : DoRemoveBlock(block_idx)

SpecNames == InitNames /\ [][NextNames]_vars

----------------------------------------------------------------------------
(* Claims about Network.check_names (SpecNames) *)

Checked == last.op = "check_names"

\* the socket a reference resolves to: <<block position, socket position>>,
\* <<0, 0>> when it does not resolve
Resolved(flat_name) ==
    LET r == LookupBlockAndSocket(m_blocks, flat_name) IN <<r.block, r.socket>>

IsInletRef(flat_name) ==
    LET r == LookupBlockAndSocket(m_blocks, flat_name)
    IN  r.ok /\ m_blocks[r.block].m_sockets[r.socket].m_inlet

IsOutletRef(flat_name) ==
    LET r == LookupBlockAndSocket(m_blocks, flat_name)
    IN  r.ok /\ ~m_blocks[r.block].m_sockets[r.socket].m_inlet

\* two connectors whose targets resolve to one inlet socket
DoubleConnectedInlet ==
    \E c, d \in 1..Len(m_connectors) :
        /\ c # d
        /\ IsInletRef(m_connectors[c].m_target_socket)
        /\ Resolved(m_connectors[c].m_target_socket)
              = Resolved(m_connectors[d].m_target_socket)

\* C6 as stated: check_names fails whenever the targets of two distinct
\* connectors resolve to the same inlet socket
C6_DoubleConnectedInletRejected ==
    (Checked /\ DoubleConnectedInlet) => ~last.ok

DuplicateBlockName ==
    \E i, j \in 1..Len(m_blocks) : i < j /\ m_blocks[i].m_name = m_blocks[j].m_name

DotInBlockName == \E i \in 1..Len(m_blocks) : HasDot(m_blocks[i].m_name)

DuplicateSocketInBlock ==
    \E i \in 1..Len(m_blocks) : DuplicateSocketName(m_blocks[i].m_sockets)

\* C7: check_names fails for every network with two blocks of one name, with
\* a block name containing ".", or with a block that has two sockets of one name
C7_BadNamesRejected ==
    (Checked /\ (DuplicateBlockName \/ DotInBlockName \/ DuplicateSocketInBlock))
        => ~last.ok

\* two blocks both named "A", and nothing else wrong with the names: no "." in
\* a name, no socket named twice
C7_Witness ==
    /\ Checked /\ ~DotInBlockName /\ ~DuplicateSocketInBlock
    /\ m_blocks[1].m_name = <<"A">> /\ m_blocks[2].m_name = <<"A">>
    /\ last.error = "Duplicate Block ID name"

EmptyBlockName == \E i \in 1..Len(m_blocks) : m_blocks[i].m_name = <<>>

\* C8 as stated: check_names fails for every network with a block whose name
\* is the empty string
C8_EmptyBlockNameRejected ==
    (Checked /\ EmptyBlockName) => ~last.ok

\* C9: check_names passes only if the source of every connector resolves to
\* an outlet socket and its target to an inlet socket
C9_ConnectorsResolveWithPolarity ==
    (Checked /\ last.ok) =>
        \A c \in 1..Len(m_connectors) :
            /\ IsOutletRef(m_connectors[c].m_source_socket)
            /\ IsInletRef(m_connectors[c].m_target_socket)

\* a network of two connectors passes: each source resolves to an outlet and
\* each target to an inlet
C9_Witness ==
    /\ Checked /\ last.ok
    /\ Len(m_connectors) = 2
    /\ m_connectors[1].m_target_socket # m_connectors[2].m_target_socket
    /\ IsOutletRef(m_connectors[2].m_source_socket)
    /\ IsInletRef(m_connectors[2].m_target_socket)

----------------------------------------------------------------------------
(* Specification SpecDrag: the segments of one connector are dragged with  *)
(* the mouse and merged                                                    *)

\* the number of drag steps of a run
MaxDrags == 2

\* the distances a segment item moves in one step: itemChange snaps the item
\* to the grid, so they are multiples of the grid spacing, not both zero
MoveDists ==
    {<<GridSpacing, 0>>, <<-GridSpacing, 0>>, <<0, GridSpacing>>, <<0, -GridSpacing>>,
     <<GridSpacing, -GridSpacing>>, <<-GridSpacing, GridSpacing>>}

InitDrag ==
    /\ m_blocks = <<PlainBlock(<<"A">>, Point(0, 0), Horizontal),
                    PlainBlock(<<"B">>, Point(Px(300), Px(104)), Horizontal)>>
    /\ \E segs \in SegLists(MaxSegs) :
          /\ m_connectors = <<Connector(<<"c">>, RefAo, RefBi, segs)>>
          /\ m_segment_idx \in (IF segs = <<>> THEN {-1} ELSE 0..(Len(segs) - 1))
    /\ moves = 0
    /\ last = NoOp
    /\ before = m_connectors
    /\ hist = <<>>
    /\ ret = <<>>
    /\ old_blocks = m_blocks
    /\ m_currently_connecting = FALSE
    /\ m_block_connector_map = {}
    /\ ids = NoIds

\* ConnectorSegmentItem.itemChange(ItemPositionChange) of the item under the
\* mouse, moved by (dx, dy): _update_segments
DragStep(dx, dy) ==
    LET segs == m_connectors[1].m_segments
        r    == UpdateSegments(segs, m_segment_idx, dx, dy)
    IN  /\ m_segment_idx >= 0
        /\ moves < MaxDrags
        /\ m_connectors' = [m_connectors EXCEPT ![1].m_segments = r.segs]
        /\ m_segment_idx' = r.idx
        /\ moves' = moves + 1
        /\ before' = m_connectors
        /\ hist' = Append(hist, [dx |-> dx, dy |-> dy, segs |-> segs, idx |-> m_segment_idx])
        /\ last' = [NoOp EXCEPT !.op = "drag", !.con = 1, !.changed = (r.segs # segs)]
        /\ UNCHANGED <<m_blocks, ret,
                     old_blocks, m_currently_connecting, m_block_connector_map, ids>>

\* SceneManager.merge_connector_segments(m_connectors[1])
DoMerge ==
    LET segs == m_connectors[1].m_segments
        r    == MergeConnectorSegments(segs, m_segment_idx)
    IN  /\ last.op # "merge"
        /\ m_connectors' = [m_connectors EXCEPT ![1].m_segments = r.segs]
        /\ m_segment_idx' = r.idx
        /\ before' = m_connectors
        /\ hist' = <<>>
        /\ last' = [NoOp EXCEPT !.op = "merge", !.con = 1, !.changed = (r.segs # segs),
                                  !.again = r.upd]
        /\ UNCHANGED <<m_blocks, moves, ret,
                     old_blocks, m_currently_connecting, m_block_connector_map, ids>>

NextDrag ==
    \/ \E d \in MoveDists : DragStep(d[1], d[2])
    \/ DoMerge

SpecDrag == InitDrag /\ [][NextDrag]_vars

----------------------------------------------------------------------------
(* Claims about _update_segments and merge_connector_segments (SpecDrag) *)

SegsNow == m_connectors[1].m_segments
SegsBefore == before[1].m_segments

\* C3: a drag step leaves the sum of the Horizontal offsets and the sum of the
\* Vertical offsets of the connector as they were, so the path still ends
\* where it ended
C3_DragPreservesSums ==
    (last.op = "drag") =>
        /\ SumDir(SegsNow, Horizontal) = SumDir(SegsBefore, Horizontal)
        /\ SumDir(SegsNow, Vertical) = SumDir(SegsBefore, Vertical)

\* a diagonal drag step that inserted a segment at the head and appended two
C3_Witness ==
    /\ last.op = "drag"
    /\ hist[Len(hist)].dx # 0 /\ hist[Len(hist)].dy # 0
    /\ Len(SegsNow) = Len(SegsBefore) + 3
    /\ m_segment_idx = hist[Len(hist)].idx + 1

HasAdjacentSameDirection(segs) ==
    \E i \in 1..(Len(segs) - 1) : segs[i].m_direction = segs[i + 1].m_direction

HasNearZeroSegment(segs) ==
    \E i \in 1..Len(segs) : NearZero(segs[i].m_offset)

\* C4: after merge_connector_segments no two adjacent segments share a
\* direction, no segment has a near-zero offset, and merging again changes
\* nothing
C4_MergeFixedPoint ==
    (last.op = "merge") =>
        /\ ~HasAdjacentSameDirection(SegsNow)
        /\ ~HasNearZeroSegment(SegsNow)
        /\ MergeConnectorSegments(SegsNow, m_segment_idx).segs = SegsNow

\* a merge of a dragged list that had a near-zero segment and two adjacent
\* segments of one direction
C4_Witness ==
    /\ last.op = "merge"
    /\ Len(SegsBefore) >= 3
    /\ HasAdjacentSameDirection(SegsBefore)
    /\ HasNearZeroSegment(SegsBefore)
    /\ \E i \in 1..Len(SegsBefore) : ~NearZero(SegsBefore[i].m_offset)

\* the last two drag steps moved the item by (dx, dy) and then by (-dx, -dy)
DraggedThereAndBack ==
    /\ last.op = "drag"
    /\ Len(hist) >= 2
    /\ hist[Len(hist)].dx = -hist[Len(hist) - 1].dx
    /\ hist[Len(hist)].dy = -hist[Len(hist) - 1].dy

\* the list now is the list orig with k zero-offset segments in front of it
\* and zero-offset segments behind it
RestoredUpToZeroSegments(now, orig, k) ==
    /\ k >= 0
    /\ Len(now) >= k + Len(orig)
    /\ SubSeq(now, k + 1, k + Len(orig)) = orig
    /\ \A j \in 1..Len(now) : (j <= k \/ j > k + Len(orig)) => now[j].m_offset = 0

\* C5: dragging a segment by (dx, dy) and then by (-dx, -dy) gives back the
\* segment list the first step started from, except for zero-offset segments
\* the first step created at the head and at the tail; merging the result
\* gives what merging the original list gives
C5_DragThereAndBack ==
    DraggedThereAndBack =>
        LET first == hist[Len(hist) - 1]
        IN  /\ RestoredUpToZeroSegments(SegsNow, first.segs, m_segment_idx - first.idx)
            /\ MergeConnectorSegments(SegsNow, m_segment_idx).segs
                 = MergeConnectorSegments(first.segs, first.idx).segs

\* a drag there and back whose first step created a segment at the head and
\* one at the tail, both left with offset zero
C5_Witness ==
    /\ DraggedThereAndBack
    /\ m_segment_idx = hist[Len(hist) - 1].idx + 1
    /\ Len(SegsNow) >= Len(hist[Len(hist) - 1].segs) + 2
    /\ SegsNow[1].m_offset = 0
    /\ SegsNow[Len(SegsNow)].m_offset = 0

----------------------------------------------------------------------------
(* Specification SpecBlock: one block whose sockets are reconciled with    *)
(* required names, which is resized, and whose sockets are queried         *)

\* the number of auto_update_sockets and resize calls of a run
MaxEdits == 2

\* the sockets a block starts with: on the perimeter of the 100 x 50 block
SocketPool ==
    { Socket(<<"a">>, Point(0, Px(8)), Horizontal, TRUE),
      Socket(<<"a">>, Point(Px(100), Px(8)), Horizontal, FALSE),
      Socket(<<"b">>, Point(Px(8), 0), Vertical, TRUE),
      Socket(<<"b">>, Point(Px(8), Px(50)), Vertical, FALSE),
      Socket(<<"b">>, Point(0, 0), Horizontal, TRUE),
      Socket(<<"a">>, Point(0, Px(16)), Horizontal, FALSE) }

\* the socket lists a block starts with: at most two sockets of the pool
InitSocketLists ==
    {<<>>} \cup {<<s>> : s \in SocketPool}
           \cup {st \in SocketPool \X SocketPool : st[1] # st[2]}

\* the required inlet and outlet names passed to auto_update_sockets
RequiredNames ==
    { <<<< <<"a">> >>, << <<"b">> >>>>,
      <<<< <<"c">> >>, <<>>>>,
      <<<< <<"b">> >>, << <<"a">> >>>>,
      <<<< <<"a">>, <<"c">>, <<"d">> >>, << <<"b">> >>>>,
      <<<< <<"a">> >>, << <<"a">> >>>> }

\* the sizes passed to resize: multiples of the grid spacing
ResizeSizes ==
    {<<GridSpacing, GridSpacing>>, <<2 * GridSpacing, 2 * GridSpacing>>,
     <<13 * GridSpacing, 7 * GridSpacing>>}

InitBlock ==
    /\ \E sockets \in InitSocketLists :
          m_blocks = <<Block(<<"A">>, Point(Px(40), Px(16)), sockets)>>
    /\ m_connectors = <<>>
    /\ m_segment_idx = -1
    /\ moves = 0
    /\ last = NoOp
    /\ before = m_connectors
    /\ hist = <<>>
    /\ ret = <<>>
    /\ old_blocks = m_blocks
    /\ m_currently_connecting = FALSE
    /\ m_block_connector_map = {}
    /\ ids = NoIds

\* Block.socket_start_line(m_sockets[k]) of the block
DoSocketStartLine(k) ==
    /\ ret' = SocketStartLine(m_blocks[1], m_blocks[1].m_sockets[k])
    /\ last' = [NoOp EXCEPT !.op = "socket_start_line", !.con = k]
    /\ UNCHANGED <<m_blocks, m_connectors, m_segment_idx, moves, before, hist,
                   old_blocks, m_currently_connecting, m_block_connector_map, ids>>

\* Block.find_socket_insert_position(inlet_socket) of the block
DoFindSocketInsertPosition(inlet_socket) ==
    /\ ret' = [inlet_socket |-> inlet_socket,
               pos |-> FindSocketInsertPosition(m_blocks[1], inlet_socket)]
    /\ last' = [NoOp EXCEPT !.op = "find_socket_insert_position"]
    /\ UNCHANGED <<m_blocks, m_connectors, m_segment_idx, moves, before, hist,
                   old_blocks, m_currently_connecting, m_block_connector_map, ids>>

\* Block.auto_update_sockets(inlet_sockets, outlet_sockets) of the block
DoAutoUpdateSockets(inlet_sockets, outlet_sockets) ==
    /\ moves < MaxEdits
    /\ m_blocks' = <<AutoUpdateSockets(m_blocks[1], inlet_sockets, outlet_sockets)>>
    /\ old_blocks' = m_blocks
    /\ moves' = moves + 1
    /\ ret' = [inlet_sockets |-> inlet_sockets, outlet_sockets |-> outlet_sockets]
    /\ last' = [NoOp EXCEPT !.op = "auto_update_sockets",
                              !.changed = (m_blocks' # m_blocks)]
    /\ UNCHANGED <<m_connectors, m_segment_idx, before, hist,
                   m_currently_connecting, m_block_connector_map, ids>>

\* BlockItem.resize(new_width, new_height) of the block's item
DoResize(new_width, new_height) ==
    /\ moves < MaxEdits
    /\ m_blocks' = <<Resize(m_blocks[1], new_width, new_height)>>
    /\ old_blocks' = m_blocks
    /\ moves' = moves + 1
    /\ ret' = <<>>
    /\ last' = [NoOp EXCEPT !.op = "resize", !.changed = (m_blocks' # m_blocks)]
    /\ UNCHANGED <<m_connectors, m_segment_idx, before, hist,
                   m_currently_connecting, m_block_connector_map, ids>>

NextBlock ==
    \/ \E k \in 1..Len(m_blocks[1].m_sockets) : DoSocketStartLine(k)
    \/ \E inlet_socket \in BOOLEAN : DoFindSocketInsertPosition(inlet_socket)
    \/ \E r \in RequiredNames : DoAutoUpdateSockets(r[1], r[2])
    \/ \E sz \in ResizeSizes : DoResize(sz[1], sz[2])

SpecBlock == InitBlock /\ [][NextBlock]_vars

----------------------------------------------------------------------------
(* Claims about single blocks (SpecBlock) *)

TheBlock == m_blocks[1]
OldBlock == old_blocks[1]

\* two grid cells in a direction
DirectionOffset(direction) ==
    CASE direction = "Left"   -> Point(-2 * GridSpacing, 0)
      [] direction = "Right"  -> Point(2 * GridSpacing, 0)
      [] direction = "Top"    -> Point(0, -2 * GridSpacing)
      [] direction = "Bottom" -> Point(0, 2 * GridSpacing)

\* C11 as stated: the extension line of a socket of a block that is not the
\* helper block starts at the socket's anchor (socket position + block
\* position) and ends two grid cells from it in the socket's direction
C11_StartLineFromAnchor ==
    (last.op = "socket_start_line" /\ TheBlock.m_name # InvisibleLabel) =>
        LET socket == TheBlock.m_sockets[last.con]
            anchor == PAdd(socket.m_pos, TheBlock.m_pos)
        IN  /\ ret.p1 = anchor
            /\ ret.p2 = PAdd(anchor, DirectionOffset(Direction(socket)))

UniqueSocketNames(block) ==
    \A i, j \in 1..Len(block.m_sockets) :
        block.m_sockets[i].m_name = block.m_sockets[j].m_name => i = j

DuplicateFree(list) == \A i, j \in 1..Len(list) : list[i] = list[j] => i = j

Disjoint(list1, list2) == \A i \in 1..Len(list1) : ~InList(list2, list1[i])

\* the socket's name is required with the socket's polarity
RequiredAsIs(socket, inlet_sockets, outlet_sockets) ==
    InList(IF socket.m_inlet THEN inlet_sockets ELSE outlet_sockets, socket.m_name)

\* the positions (in order) of the sockets of a block that are required as they are
RequiredPositions(block, inlet_sockets, outlet_sockets) ==
    {k \in 1..Len(block.m_sockets) :
        RequiredAsIs(block.m_sockets[k], inlet_sockets, outlet_sockets)}

\* auto_update_sockets ran on a block of unique socket names with disjoint,
\* duplicate-free lists of required names
AutoUpdated ==
    /\ last.op = "auto_update_sockets"
    /\ UniqueSocketNames(OldBlock)
    /\ DuplicateFree(ret.inlet_sockets) /\ DuplicateFree(ret.outlet_sockets)
    /\ Disjoint(ret.inlet_sockets, ret.outlet_sockets)

\* C14: auto_update_sockets keeps the existing sockets whose name is required
\* with their polarity, unchanged and in their order, at the head of the
\* socket list, and drops the others; afterwards every required name has
\* exactly one socket, of the required polarity, and there is no other socket
C14_AutoUpdateKeepsRequired ==
    AutoUpdated =>
        LET kept == RequiredPositions(OldBlock, ret.inlet_sockets, ret.outlet_sockets)
            n    == Cardinality(kept)
            new  == TheBlock.m_sockets
        IN  /\ Len(new) >= n
            /\ \A k \in kept :
                  new[Cardinality({j \in kept : j <= k})] = OldBlock.m_sockets[k]
            /\ \A i \in (n + 1)..Len(new) :
                  \A k \in 1..Len(OldBlock.m_sockets) :
                      OldBlock.m_sockets[k].m_name = new[i].m_name => k \notin kept
            /\ UniqueSocketNames(TheBlock)
            /\ \A i \in 1..Len(new) :
                  RequiredAsIs(new[i], ret.inlet_sockets, ret.outlet_sockets)
            /\ \A i \in 1..Len(ret.inlet_sockets) :
                  \E k \in 1..Len(new) : new[k].m_name = ret.inlet_sockets[i] /\ new[k].m_inlet
            /\ \A i \in 1..Len(ret.outlet_sockets) :
                  \E k \in 1..Len(new) : new[k].m_name = ret.outlet_sockets[i] /\ ~new[k].m_inlet

\* a block with a socket that stays and a socket of a required name but the
\* other polarity, which is dropped and created anew
C14_Witness ==
    /\ AutoUpdated
    /\ Len(OldBlock.m_sockets) = 2
    /\ Cardinality(RequiredPositions(OldBlock, ret.inlet_sockets, ret.outlet_sockets)) = 1
    /\ \E k \in 1..2 : /\ ~OldBlock.m_sockets[k].m_inlet
                       /\ InList(ret.inlet_sockets, OldBlock.m_sockets[k].m_name)
    /\ Len(TheBlock.m_sockets) > 2

\* a socket of the polarity sits at the grid slot <<x, y>>
SlotOccupied(block, inlet_socket, slot) ==
    \E k \in 1..Len(block.m_sockets) :
        /\ block.m_sockets[k].m_inlet = inlet_socket
        /\ GridIndex(block.m_sockets[k].m_pos.x) = slot[1]
        /\ GridIndex(block.m_sockets[k].m_pos.y) = slot[2]

\* the slots of the left edge and of the top edge of a block
EdgeSlots(block) ==
    {<<0, i>> : i \in 0..(GridIndex(block.m_size.h) - 1)}
        \cup {<<i, 0>> : i \in 0..(GridIndex(block.m_size.w) - 1)}

\* C15 as stated: find_socket_insert_position returns a slot at which no
\* socket of the requested polarity sits; only when no slot of the left and
\* top edge is free does it return the bottom-right corner of the block
C15_InsertPositionIsFree ==
    (last.op = "find_socket_insert_position") =>
        IF \E slot \in EdgeSlots(TheBlock) : ~SlotOccupied(TheBlock, ret.inlet_socket, slot)
        THEN ~SlotOccupied(TheBlock, ret.inlet_socket, ret.pos)
        ELSE ret.pos = <<GridIndex(TheBlock.m_size.w), GridIndex(TheBlock.m_size.h)>>

\* the socket lies on the perimeter of the block's rectangle
OnPerimeter(block, socket) ==
    \/ socket.m_pos.x \in {0, block.m_size.w}
          /\ 0 <= socket.m_pos.y /\ socket.m_pos.y <= block.m_size.h
    \/ socket.m_pos.y \in {0, block.m_size.h}
          /\ 0 <= socket.m_pos.x /\ socket.m_pos.x <= block.m_size.w

\* C18 as stated: after any sequence of auto_update_sockets and resize calls
\* every socket of the block lies on the perimeter of the block
C18_SocketsOnPerimeter ==
    \A k \in 1..Len(TheBlock.m_sockets) : OnPerimeter(TheBlock, TheBlock.m_sockets[k])

\* the direction a socket of an orientation has at a position
DirectionTable(orientation, pos) ==
    IF orientation = Horizontal
    THEN (IF pos.x = 0 THEN "Left" ELSE "Right")
    ELSE (IF pos.y = 0 THEN "Top" ELSE "Bottom")

\* C19: the direction of a socket is the one its orientation and position
\* give, and a resize leaves the direction of every socket as it was
C19_DirectionStableUnderResize ==
    /\ \A k \in 1..Len(TheBlock.m_sockets) :
          Direction(TheBlock.m_sockets[k])
            = DirectionTable(TheBlock.m_sockets[k].m_orientation, TheBlock.m_sockets[k].m_pos)
    /\ (last.op = "resize") =>
          /\ Len(TheBlock.m_sockets) = Len(OldBlock.m_sockets)
          /\ \A k \in 1..Len(TheBlock.m_sockets) :
                Direction(TheBlock.m_sockets[k]) = Direction(OldBlock.m_sockets[k])

\* a resize that moved a socket pointing Right and left a socket pointing
\* Left where it was
C19_Witness ==
    /\ last.op = "resize"
    /\ \E k \in 1..Len(TheBlock.m_sockets) :
          /\ Direction(TheBlock.m_sockets[k]) = "Right"
          /\ TheBlock.m_sockets[k].m_pos # OldBlock.m_sockets[k].m_pos
    /\ \E k \in 1..Len(TheBlock.m_sockets) : Direction(TheBlock.m_sockets[k]) = "Left"

----------------------------------------------------------------------------
(* Claims about the segments adjust_connector creates (Spec) *)

\* adjust_connector ran on a connector without segments whose extension
\* endpoints have the same y and different x
AdjustedStraight ==
    /\ Adjusted
    /\ before[last.con].m_segments = <<>>
    /\ EndpointGap(m_blocks, before[last.con]).dy = 0
    /\ EndpointGap(m_blocks, before[last.con]).dx # 0

\* C12 as stated: the connector then has exactly one segment, Horizontal, of
\* the horizontal gap between the two extension endpoints
C12_OneHorizontalSegment ==
    AdjustedStraight =>
        m_connectors[last.con].m_segments
            = <<Segment(Horizontal, EndpointGap(m_blocks, before[last.con]).dx)>>

\* C12 as amended: so it is when the horizontal gap is not near zero; a gap
\* that is near zero leaves the connector without segments
C12_OneHorizontalSegmentUnlessNearZero ==
    AdjustedStraight =>
        LET dx == EndpointGap(m_blocks, before[last.con]).dx
        IN  m_connectors[last.con].m_segments
                = IF NearZero(dx) THEN <<>> ELSE <<Segment(Horizontal, dx)>>

\* a connector without segments was given its one Horizontal segment
C12_Witness ==
    /\ AdjustedStraight
    /\ Len(m_connectors[last.con].m_segments) = 1
    /\ m_connectors[last.con].m_segments[1].m_direction = Horizontal

\* block A at the origin with its outlet on the right edge, block B at
\* (300, 0) with its inlet on the left edge, both 100 x 50, and the connector
\* from the outlet to the inlet, which had no segments, adjusted
ScenarioAdjusted ==
    /\ Adjusted /\ last.con = 1
    /\ Len(m_blocks) = 2
    /\ m_blocks[1] = PlainBlock(<<"A">>, Point(0, 0), Horizontal)
    /\ m_blocks[2] = PlainBlock(<<"B">>, Point(Px(300), 0), Horizontal)
    /\ before[1] = Connector(<<"c">>, RefAo, RefBi, <<>>)

\* C13 as stated: the one Horizontal segment has offset 100
C13_ScenarioOffset100 ==
    ScenarioAdjusted => m_connectors[1].m_segments = <<Segment(Horizontal, Px(100))>>

\* C13 as amended: the one Horizontal segment has offset 168, the 200 between
\* the facing block edges less two grid cells of 8 on each side
C13_ScenarioOffset168 ==
    ScenarioAdjusted => m_connectors[1].m_segments = <<Segment(Horizontal, Px(168))>>

C13_Witness ==
    /\ ScenarioAdjusted
    /\ Len(m_connectors[1].m_segments) = 1
    /\ moves = 0

----------------------------------------------------------------------------
(* Claims about Network.remove_block (SpecNames) *)

\* remove_block removed a block of a network that passes check_names
BlockRemoved ==
    /\ last.op = "remove_block" /\ last.ok
    /\ CheckNames(old_blocks, before) = ""

\* the connector refers to a socket of block i (1-based) of the blocks
RefersToBlock(blocks, connector, i) ==
    \/ LookupBlockAndSocket(blocks, connector.m_source_socket).block = i
    \/ LookupBlockAndSocket(blocks, connector.m_target_socket).block = i

\* C16 as stated: remove_block(i) on a network that passes check_names removes
\* block i and the connectors that refer to a socket of it, keeps the other
\* blocks and connectors in their order, and leaves a network that passes
\* check_names
C16_RemoveBlockRemovesReferences ==
    BlockRemoved =>
        LET i == last.con + 1
            Kept(connector) == ~RefersToBlock(old_blocks, connector, i)
        IN  /\ m_blocks = RemoveAt(old_blocks, i)
            /\ m_connectors = SelectIdx(before, {k \in 1..Len(before) : Kept(before[k])}, 1)
            /\ CheckNames(m_blocks, m_connectors) = ""

----------------------------------------------------------------------------
(* SceneManager: the block/connector bookkeeping of an interactive         *)
(* connection (the graphics items carry no model state)                    *)

\* create_connector_items: the entries it adds to m_block_connector_map for
\* the connector at position c; a failed lookup raises, and the exception
\* handler leaves the entries made so far
CreateConnectorItems(blocks, connectors, oids, c) ==
    LET src == LookupBlockAndSocket(blocks, connectors[c].m_source_socket)
        tgt == LookupBlockAndSocket(blocks, connectors[c].m_target_socket)
    IN  (IF src.ok THEN {<<oids.blocks[src.block], oids.connectors[c]>>} ELSE {})
        \cup
        (IF src.ok /\ tgt.ok THEN {<<oids.blocks[tgt.block], oids.connectors[c]>>} ELSE {})

\* BlockItem.itemChange(ItemPositionChange) on create_block_item's setPos:
\* the block position is put on the grid
SnapToGrid(pos) ==
    Point(GridIndex(pos.x) * GridSpacing, GridIndex(pos.y) * GridSpacing)

\* SceneManager.remove_block(block_index), block_index 0-based and valid
SceneRemoveBlock(blocks, connectors, map, oids, block_index) ==
    LET i == block_index + 1
        block_to_remove == oids.blocks[i]
        related_connectors == {q[2] : q \in {e \in map : e[1] = block_to_remove}}
        kept == {c \in 1..Len(connectors) : oids.connectors[c] \notin related_connectors}
        new_blocks == RemoveAt(blocks, i)
        new_connectors == SelectIdx(connectors, kept, 1)
        new_ids == [oids EXCEPT !.blocks = RemoveAt(oids.blocks, i),
                                !.connectors = SelectIdx(oids.connectors, kept, 1)]
    IN  [blocks |-> new_blocks,
         connectors |-> new_connectors,
         map |-> {e \in map : e[1] # block_to_remove}
                 \cup UNION {CreateConnectorItems(new_blocks, new_connectors, new_ids, c) :
                                c \in 1..Len(new_connectors)},
         ids |-> new_ids]

\* SceneManager.is_connected_socket(b, s): its first statement reads
\* self.block_connector_map, an attribute no SceneManager has (the map is
\* m_block_connector_map), so every call raises AttributeError
IsConnectedSocket(b, s) == [raised |-> TRUE, error |-> "AttributeError", value |-> FALSE]

\* SceneManager.add_connector(con): ok = FALSE stands for the exception whose
\* text is error; the connector list afterwards
AddConnectorResult(blocks, connectors, con) ==
    LET src == LookupBlockAndSocket(blocks, con.m_source_socket)
        tgt == LookupBlockAndSocket(blocks, con.m_target_socket)
        s1 == blocks[src.block].m_sockets[src.socket]
        s2 == blocks[tgt.block].m_sockets[tgt.socket]
        Fail(error) == [ok |-> FALSE, error |-> error, connectors |-> connectors]
        connected == IsConnectedSocket(tgt.block, tgt.socket)
        adjusted == AdjustConnector(blocks, con)
    IN  IF ~src.ok THEN Fail("Invalid source socket identifier.")
        ELSE IF ~tgt.ok THEN Fail("Invalid target socket identifier.")
        ELSE IF s1.m_inlet THEN Fail("Invalid source socket (must be an outlet socket).")
        ELSE IF ~s2.m_inlet THEN Fail("Invalid target socket (must be an inlet socket).")
        ELSE IF connected.raised THEN Fail(connected.error)
        ELSE IF connected.value
        THEN Fail("Invalid target socket (has already an incoming connection).")
        ELSE [ok |-> TRUE, error |-> "",
              connectors |-> Append(connectors, adjusted.connector)]

----------------------------------------------------------------------------
(* Specification SpecConnect: connections are started at outlet sockets    *)
(* and abandoned; blocks and connectors are added and removed              *)

\* the number of mouse events
MaxEvents == 3

\* the names of the first block: plain, and with a trailing blank
FirstBlockNames == {<<"A">>, <<"A", " ">>}

\* the connectors of the network, by name
ConnectConnectors ==
    { <<>>,
      <<Connector(<<"c", "1">>, RefAo, RefBi, <<>>)>>,
      <<Connector(<<"c", "1">>, RefBo, RefAi, <<>>)>>,
      <<Connector(<<"c", "1">>, RefAo, RefBi, <<>>),
        Connector(<<"c", "2">>, RefBo, RefAi, <<>>)>> }

\* the mouse positions a connection is started at
MousePositions == {Point(Px(200), Px(96)), Point(Px(43), Px(13))}

\* the networks handed to set_network: they pass check_names
ConnectNetworks ==
    { n \in { [blocks |-> <<PlainBlock(a, Point(0, 0), Horizontal),
                            PlainBlock(<<"B">>, Point(Px(304), 0), Horizontal)>>,
               connectors |-> cs] : a \in FirstBlockNames, cs \in ConnectConnectors } :
        CheckNames(n.blocks, n.connectors) = "" }

\* SceneManager.set_network
InitConnect ==
    \E n \in ConnectNetworks :
        LET oids == [blocks |-> [i \in 1..Len(n.blocks) |-> i],
                     connectors |-> [c \in 1..Len(n.connectors) |-> Len(n.blocks) + c],
                     next |-> Len(n.blocks) + Len(n.connectors) + 1]
        IN  /\ m_blocks = n.blocks
            /\ m_connectors = n.connectors
            /\ ids = oids
            /\ m_block_connector_map =
                  UNION {CreateConnectorItems(n.blocks, n.connectors, oids, c) :
                            c \in 1..Len(n.connectors)}
            /\ m_currently_connecting = FALSE
            /\ m_segment_idx = -1
            /\ moves = 0
            /\ last = NoOp
            /\ before = n.connectors
            /\ old_blocks = n.blocks
            /\ hist = <<>>
            /\ ret = <<>>

\* SceneManager.start_socket_connection(outlet_socket_item, mouse_pos): b and s
\* are the positions of the block and of its socket under the mouse
StartSocketConnection(b, s, mouse_pos) ==
    LET source_block == m_blocks[b]
        source_socket == source_block.m_sockets[s]
        start_socket_name == source_block.m_name \o <<".">> \o source_socket.m_name
        con == Connector(InvisibleLabel, start_socket_name, RefHelper, <<>>)
        new_blocks == Append(m_blocks, HelperBlock(SnapToGrid(mouse_pos)))
        new_connectors == Append(m_connectors, con)
        new_ids == [blocks |-> Append(ids.blocks, ids.next),
                    connectors |-> Append(ids.connectors, ids.next + 1),
                    next |-> ids.next + 2]
    IN  /\ moves < MaxEvents
        /\ ~source_socket.m_inlet
        /\ m_blocks' = new_blocks
        /\ m_connectors' = new_connectors
        /\ ids' = new_ids
        /\ m_block_connector_map' =
              m_block_connector_map
              \cup CreateConnectorItems(new_blocks, new_connectors, new_ids,
                                        Len(new_connectors))
        /\ m_currently_connecting' = TRUE
        /\ moves' = moves + 1
        /\ hist' = Append(hist, "start_socket_connection")
        /\ ret' = [blocks |-> m_blocks, connectors |-> m_connectors,
                   connecting |-> m_currently_connecting, con |-> con]
        /\ last' = [NoOp EXCEPT !.op = "start_socket_connection", !.con = b]
        /\ UNCHANGED <<m_segment_idx, before, old_blocks>>

\* SceneManager.finish_connection
FinishConnection ==
    LET helper_is_last ==
            Len(m_blocks) > 0 /\ m_blocks[Len(m_blocks)].m_name = InvisibleLabel
        r == SceneRemoveBlock(m_blocks, m_connectors, m_block_connector_map, ids,
                              Len(m_blocks) - 1)
    IN  /\ moves < MaxEvents
        /\ IF helper_is_last
           THEN /\ m_blocks' = r.blocks
                /\ m_connectors' = r.connectors
                /\ m_block_connector_map' = r.map
                /\ ids' = r.ids
           ELSE UNCHANGED <<m_blocks, m_connectors, m_block_connector_map, ids>>
        /\ m_currently_connecting' = FALSE
        /\ moves' = moves + 1
        /\ hist' = Append(hist, "finish_connection")
        /\ last' = [NoOp EXCEPT !.op = "finish_connection", !.changed = helper_is_last]
        /\ UNCHANGED <<m_segment_idx, before, old_blocks, ret>>

\* the connectors handed to add_connector
NewConnectors ==
    { Connector(<<"n">>, RefAo, RefBi, <<>>),
      Connector(<<"n">>, RefBo, RefAi, <<Segment(Vertical, GridSpacing)>>),
      Connector(<<"n">>, RefAi, RefBi, <<>>),
      Connector(<<"n">>, RefAo, RefBo, <<>>),
      Connector(<<"n">>, RefNoDot, RefBi, <<>>),
      Connector(<<"n">>, RefAo, RefXi, <<>>) }

\* SceneManager.add_connector(con)
AddConnector(con) ==
    LET r == AddConnectorResult(m_blocks, m_connectors, con)
    IN  /\ moves < MaxEvents
        /\ m_connectors' = r.connectors
        /\ ids' = IF r.ok
                  THEN [ids EXCEPT !.connectors = Append(@, ids.next), !.next = @ + 1]
                  ELSE ids
        /\ moves' = moves + 1
        /\ hist' = Append(hist, "add_connector")
        /\ ret' = [blocks |-> m_blocks, connectors |-> m_connectors,
                   connecting |-> m_currently_connecting, con |-> con]
        /\ last' = [NoOp EXCEPT !.op = "add_connector", !.ok = r.ok, !.error = r.error,
                                  !.changed = (r.connectors # m_connectors)]
        /\ UNCHANGED <<m_blocks, m_segment_idx, before, old_blocks,
                       m_currently_connecting, m_block_connector_map>>

\* SceneManager.add_block(block), the block being a new block "C"
AddBlock ==
    /\ moves < MaxEvents
    /\ m_blocks' = Append(m_blocks, PlainBlock(<<"C">>, Point(Px(152), Px(104)), Horizontal))
    /\ ids' = [ids EXCEPT !.blocks = Append(@, ids.next), !.next = @ + 1]
    /\ moves' = moves + 1
    /\ hist' = Append(hist, "add_block")
    /\ last' = [NoOp EXCEPT !.op = "add_block", !.changed = TRUE]
    /\ UNCHANGED <<m_connectors, m_segment_idx, before, old_blocks, ret,
                   m_currently_connecting, m_block_connector_map>>

\* SceneManager.remove_block(block_index), block_index 0-based
RemoveBlockAt(block_index) ==
    LET r == SceneRemoveBlock(m_blocks, m_connectors, m_block_connector_map, ids,
                              block_index)
    IN  /\ moves < MaxEvents
        /\ m_blocks' = r.blocks
        /\ m_connectors' = r.connectors
        /\ m_block_connector_map' = r.map
        /\ ids' = r.ids
        /\ moves' = moves + 1
        /\ hist' = Append(hist, "remove_block")
        /\ last' = [NoOp EXCEPT !.op = "remove_block", !.con = block_index,
                                  !.changed = TRUE]
        /\ UNCHANGED <<m_segment_idx, before, old_blocks, ret, m_currently_connecting>>

\* SceneManager.remove_connector(connector_index), connector_index 0-based
RemoveConnectorAt(connector_index) ==
    LET con_to_remove == ids.connectors[connector_index + 1]
    IN  /\ moves < MaxEvents
        /\ m_block_connector_map' = {e \in m_block_connector_map : e[2] # con_to_remove}
        /\ m_connectors' = RemoveAt(m_connectors, connector_index + 1)
        /\ ids' = [ids EXCEPT !.connectors = RemoveAt(@, connector_index + 1)]
        /\ moves' = moves + 1
        /\ hist' = Append(hist, "remove_connector")
        /\ last' = [NoOp EXCEPT !.op = "remove_connector", !.con = connector_index,
                                  !.changed = TRUE]
        /\ UNCHANGED <<m_blocks, m_segment_idx, before, old_blocks, ret,
                       m_currently_connecting>>

NextConnect ==
    \/ \E b \in 1..Len(m_blocks) : \E s \in 1..Len(m_blocks[b].m_sockets) :
          \E mouse_pos \in MousePositions : StartSocketConnection(b, s, mouse_pos)
    \/ FinishConnection
    \/ \E con \in NewConnectors : AddConnector(con)
    \/ AddBlock
    \/ \E block_index \in 0..(Len(m_blocks) - 1) : RemoveBlockAt(block_index)
    \/ \E connector_index \in 0..(Len(m_connectors) - 1) :
          RemoveConnectorAt(connector_index)

SpecConnect == InitConnect /\ [][NextConnect]_vars

----------------------------------------------------------------------------
(* Claims about abandoned connections (SpecConnect) *)

\* finish_connection directly followed a start_socket_connection that began
\* when no connection was being made
Abandoned ==
    /\ Len(hist) >= 2
    /\ hist[Len(hist)] = "finish_connection"
    /\ hist[Len(hist) - 1] = "start_socket_connection"
    /\ ~ret.connecting

----------------------------------------------------------------------------
(* Specification SpecMerge: merge_connector_segments, one pass of its      *)
(* outer loop at a time.  last.op tells where the call stands: "init" and  *)
(* "pass" at the loop test (i is 0 there), "return" after the loop;        *)
(* last.again is update_segments; moves counts the passes.                 *)

\* a limit on the passes, above every number of passes the loop makes
MaxPasses == MaxSegs + 2

\* merge_connector_segments(m_connectors[1]) is called
InitMerge ==
    /\ m_blocks = <<PlainBlock(<<"A">>, Point(0, 0), Horizontal),
                    PlainBlock(<<"B">>, Point(Px(300), Px(104)), Horizontal)>>
    /\ \E segs \in SegLists(MaxSegs + 1) :
          /\ m_connectors = <<Connector(<<"c">>, RefAo, RefBi, segs)>>
          /\ m_segment_idx \in (IF segs = <<>> THEN {-1} ELSE 0..(Len(segs) - 1))
    /\ moves = 0
    /\ last = NoOp
    /\ before = m_connectors
    /\ hist = <<>>
    /\ ret = <<>>
    /\ old_blocks = m_blocks
    /\ m_currently_connecting = FALSE
    /\ m_block_connector_map = {}
    /\ ids = NoIds

\* the loop is about to test "i < len(segment_items)"
AtLoopTest == last.op \in {"init", "pass"}

\* the state of the call, as MergeScan and MergeRemove take it
MergeState ==
    [segs |-> m_connectors[1].m_segments, idx |-> m_segment_idx, upd |-> last.again]

\* one pass of the outer loop: the scan, then "if i == len(segment_items): break"
\* or the removal
MergePass ==
    LET sc == MergeScan(MergeState, 0)
        leave == sc.i = Len(sc.st.segs)
        st == IF leave THEN sc.st ELSE MergeRemove(sc.st, sc.i)
    IN  /\ AtLoopTest
        /\ 0 < Len(m_connectors[1].m_segments)
        /\ moves < MaxPasses
        /\ m_connectors' = [m_connectors EXCEPT ![1].m_segments = st.segs]
        /\ m_segment_idx' = st.idx
        /\ moves' = moves + 1
        /\ last' = [NoOp EXCEPT !.op = IF leave THEN "return" ELSE "pass",
                                  !.con = 1, !.again = st.upd]
        /\ UNCHANGED <<m_blocks, before, hist, ret,
                       old_blocks, m_currently_connecting, m_block_connector_map, ids>>

\* the loop test fails: the loop is left
MergeReturn ==
    /\ AtLoopTest
    /\ ~(0 < Len(m_connectors[1].m_segments))
    /\ last' = [last EXCEPT !.op = "return", !.con = 1]
    /\ UNCHANGED <<m_blocks, m_connectors, m_segment_idx, moves, before, hist, ret,
                   old_blocks, m_currently_connecting, m_block_connector_map, ids>>

NextMerge == MergePass \/ MergeReturn

SpecMerge == InitMerge /\ [][NextMerge]_vars

\* the call runs on: the program is single-threaded and synchronous, a call
\* that can take a step takes it
FairSpecMerge == SpecMerge /\ WF_vars(NextMerge)

----------------------------------------------------------------------------
(* Claims about the termination of merge_connector_segments (FairSpecMerge) *)

\* the number of segments the call started with
SegmentsAtCall == Len(before[1].m_segments)

\* the outer loop has been left
LoopLeft == last.op = "return"

\* C20: merge_connector_segments terminates for every segment list: the outer
\* loop is eventually left, and it never makes more passes than the list had
\* segments at the call
C20_MergeTerminates ==
    /\ <>LoopLeft
    /\ [](moves <= SegmentsAtCall)

\* the loop has been left after as many passes as there were segments, and
\* there were as many as the lists of the model have at most
C20_Witness ==
    /\ LoopLeft
    /\ moves = SegmentsAtCall
    /\ SegmentsAtCall = MaxSegs + 1

----------------------------------------------------------------------------
(* Claims about what merge_connector_segments keeps (SpecDrag) *)

\* adjacent segments alternate direction and no offset is zero or near zero
AlternatingNonZero(segs) ==
    /\ ~HasAdjacentSameDirection(segs)
    /\ ~HasNearZeroSegment(segs)

\* C22 as stated: merge_connector_segments leaves a list unchanged in which
\* adjacent segments alternate direction and every offset is non-zero (here:
\* not even near zero)
C22_MergeKeepsCleanList ==
    (last.op = "merge" /\ AlternatingNonZero(SegsBefore)) => SegsNow = SegsBefore

\* the sums of one direction agree up to the near-zero offsets (below 2 units
\* each) that were removed from a list of n segments
SumsAgree(now, orig, dir) ==
    Abs(SumDir(now, dir) - SumDir(orig, dir)) <= Len(orig)

\* C23 as stated: merge_connector_segments leaves the sum of the Horizontal
\* offsets and the sum of the Vertical offsets as they were (up to the
\* near-zero offsets removed), and removes no segment from a list that has no
\* near-zero offset and no two adjacent segments of one direction
C23_MergePreservesSums ==
    (last.op = "merge") =>
        /\ SumsAgree(SegsNow, SegsBefore, Horizontal)
        /\ SumsAgree(SegsNow, SegsBefore, Vertical)
        /\ AlternatingNonZero(SegsBefore) => Len(SegsNow) = Len(SegsBefore)

----------------------------------------------------------------------------
(* Claims about the segment a drag step inserts (SpecDrag) *)

\* the last drag step: its delta, and the list and index it started from
LastDrag == hist[Len(hist)]

\* the delta of the last drag step on the axis of dir
DragDelta(dir) == IF dir = Horizontal THEN LastDrag.dx ELSE LastDrag.dy

\* the last drag step had a delta on the axis of dir that no segment to the
\* left of the dragged one could absorb, and the dragged segment has the
\* other direction
NeedsInsert(dir) ==
    /\ last.op = "drag"
    /\ ~NearZero(DragDelta(dir))
    /\ \A k \in 1..LastDrag.idx : LastDrag.segs[k].m_direction # dir
    /\ LastDrag.segs[LastDrag.idx + 1].m_direction # dir

\* C25 as stated: the new segment stands immediately before the dragged
\* segment, at the dragged segment's former index, and the dragged segment's
\* index has grown by one
C25_InsertBeforeDragged ==
    \A dir \in {Horizontal, Vertical} :
        NeedsInsert(dir) =>
            /\ m_segment_idx = LastDrag.idx + 1
            /\ SegsNow[LastDrag.idx + 1] = Segment(dir, DragDelta(dir))

----------------------------------------------------------------------------
(* Claims about where a drag step moves the dragged segment (SpecDrag) *)

\* the start point of the segment at index idx (0-based) of segs, on the axis
\* of dir, relative to the end of the source extension line: the offsets of
\* the segments before it
StartOf(segs, idx, dir) == SumDir(SubSeq(segs, 1, idx), dir)

\* the direction of the segment the last drag step dragged
DraggedDirection == LastDrag.segs[LastDrag.idx + 1].m_direction

\* C29: a drag step by (dx, dy) moves the start point of a dragged Vertical
\* segment by exactly dx in x, and the start point of a dragged Horizontal
\* segment by exactly dy in y
C29_DragMovesSegment ==
    (last.op = "drag") =>
        /\ DraggedDirection = Vertical =>
              StartOf(SegsNow, m_segment_idx, Horizontal)
                 = StartOf(LastDrag.segs, LastDrag.idx, Horizontal) + LastDrag.dx
        /\ DraggedDirection = Horizontal =>
              StartOf(SegsNow, m_segment_idx, Vertical)
                 = StartOf(LastDrag.segs, LastDrag.idx, Vertical) + LastDrag.dy

\* a diagonal drag step of a Vertical segment that is not the first, with no
\* Horizontal segment to its left: a Horizontal segment was inserted
C29_Witness ==
    /\ last.op = "drag"
    /\ LastDrag.idx >= 1
    /\ DraggedDirection = Vertical
    /\ LastDrag.dx # 0 /\ LastDrag.dy # 0
    /\ NeedsInsert(Horizontal)
    /\ m_segment_idx = LastDrag.idx + 1

----------------------------------------------------------------------------
(* Claims about the segments adjust_connector touches (Spec) *)

\* the segments of the adjusted connector before and after adjust_connector
AdjustedOld == before[last.con].m_segments
AdjustedNew == m_connectors[last.con].m_segments

\* C26: adjust_connector keeps every existing segment in its place and
\* direction, changes the offset of no segment but the first of each
\* direction, and appends at most one new segment per axis, at the end of the
\* list and only for an axis that had no segment
C26_AdjustFrame ==
    Adjusted =>
        LET n == Len(AdjustedOld)
            added == (n + 1)..Len(AdjustedNew)
        IN  /\ Len(AdjustedNew) >= n
            /\ \A i \in 1..n :
                  /\ AdjustedNew[i].m_direction = AdjustedOld[i].m_direction
                  /\ AdjustedNew[i].m_offset # AdjustedOld[i].m_offset
                        => i = FirstOfDirection(AdjustedOld, AdjustedOld[i].m_direction)
            /\ \A i \in added, j \in added :
                  AdjustedNew[i].m_direction = AdjustedNew[j].m_direction => i = j
            /\ \A i \in added :
                  FirstOfDirection(AdjustedOld, AdjustedNew[i].m_direction) = 0

\* an adjustment of a list of two segments of one direction that changed the
\* offset of the first and appended a segment of the other axis
C26_Witness ==
    /\ Adjusted
    /\ Len(AdjustedOld) = 2
    /\ AdjustedOld[1].m_direction = AdjustedOld[2].m_direction
    /\ Len(AdjustedNew) = 3
    /\ AdjustedNew[1].m_offset # AdjustedOld[1].m_offset

----------------------------------------------------------------------------
(* Claims about where auto_update_sockets places new sockets (SpecBlock) *)

\* the number of sockets auto_update_sockets kept
KeptCount ==
    Cardinality(RequiredPositions(OldBlock, ret.inlet_sockets, ret.outlet_sockets))

\* the positions in the socket list of the sockets auto_update_sockets created
NewSockets == (KeptCount + 1)..Len(TheBlock.m_sockets)

\* the fallback position of a polarity
FallbackPosition(block, inlet) ==
    Point(block.m_size.w - GridSpacing, IF inlet THEN 0 ELSE block.m_size.h)

\* a socket created by auto_update_sockets sits at the fallback position of
\* its polarity
FallbackUsed ==
    \E i \in NewSockets :
        TheBlock.m_sockets[i].m_pos
            = FallbackPosition(TheBlock, TheBlock.m_sockets[i].m_inlet)

\* C28 as stated: unless the fallback position is used, no socket created by
\* auto_update_sockets sits where another socket of the block sits
C28_NewSocketsDoNotOverlap ==
    (AutoUpdated /\ ~FallbackUsed) =>
        \A i \in NewSockets : \A j \in 1..Len(TheBlock.m_sockets) :
            TheBlock.m_sockets[i].m_pos = TheBlock.m_sockets[j].m_pos => i = j


\* the least element of a non-empty set of numbers
Least(S) == CHOOSE x \in S : \A y \in S : x <= y

\* the position the socket at position i of the list is to be given: the
\* topmost row slot of its edge (left for an inlet, right for an outlet) at
\* which none of the sockets before it sits, else the leftmost such column
\* slot (top for an inlet, bottom for an outlet), else the fallback position
ExpectedPosition(block, i) ==
    LET inlet == block.m_sockets[i].m_inlet
        taken == {block.m_sockets[j].m_pos : j \in 1..(i - 1)}
        edge_x == IF inlet THEN 0 ELSE block.m_size.w
        edge_y == IF inlet THEN 0 ELSE block.m_size.h
        rows == {r \in 0..(GridIndex(block.m_size.h) - 1) :
                    Point(edge_x, r * GridSpacing) \notin taken}
        cols == {c \in 0..(GridIndex(block.m_size.w) - 1) :
                    Point(c * GridSpacing, edge_y) \notin taken}
    IN  IF rows # {} THEN Point(edge_x, Least(rows) * GridSpacing)
        ELSE IF cols # {} THEN Point(Least(cols) * GridSpacing, edge_y)
        ELSE FallbackPosition(block, inlet)

\* C27 as stated: every socket created by auto_update_sockets sits at the
\* topmost unoccupied row slot of its edge, else at the leftmost unoccupied
\* column slot, else at the fallback position, the sockets kept and the
\* sockets created before it occupying their slots
C27_NewSocketsAtFirstFreeSlot ==
    AutoUpdated =>
        \A i \in NewSockets :
            TheBlock.m_sockets[i].m_pos = ExpectedPosition(TheBlock, i)

----------------------------------------------------------------------------
(* Claims about add_connector (SpecConnect) *)

\* a connector of the list has the socket s of block b as its target
HasIncoming(blocks, connectors, b, s) ==
    \E c \in 1..Len(connectors) :
        LET t == LookupBlockAndSocket(blocks, connectors[c].m_target_socket)
        IN  t.ok /\ t.block = b /\ t.socket = s

\* the connector's source resolves to an outlet and its target to an inlet
\* without incoming connector
Connectable(blocks, connectors, con) ==
    LET src == LookupBlockAndSocket(blocks, con.m_source_socket)
        tgt == LookupBlockAndSocket(blocks, con.m_target_socket)
    IN  /\ src.ok /\ tgt.ok
        /\ ~blocks[src.block].m_sockets[src.socket].m_inlet
        /\ blocks[tgt.block].m_sockets[tgt.socket].m_inlet
        /\ ~HasIncoming(blocks, connectors, tgt.block, tgt.socket)

\* C30 as stated: add_connector(con) succeeds whenever con's source resolves
\* to an outlet and its target to an inlet without incoming connector, and
\* then con is appended, adjusted so that its path closes; otherwise it fails
\* and leaves the connector list as it was
C30_AddConnectorSucceeds ==
    (last.op = "add_connector") =>
        IF Connectable(ret.blocks, ret.connectors, ret.con)
        THEN /\ last.ok
             /\ Len(m_connectors) = Len(ret.connectors) + 1
             /\ SubSeq(m_connectors, 1, Len(ret.connectors)) = ret.connectors
             /\ LET e == PathError(m_blocks, m_connectors[Len(m_connectors)])
                IN  NearZero(e.x) /\ NearZero(e.y)
        ELSE ~last.ok /\ m_connectors = ret.connectors

----------------------------------------------------------------------------
(* Claims about m_block_connector_map (SpecConnect) *)

\* C24 as stated: after any sequence of set_network, add_block,
\* start_socket_connection, finish_connection, remove_block and
\* remove_connector, every connector in a value of m_block_connector_map is
\* an element of m_network.m_connectors
C24_MapHoldsOnlyNetworkConnectors ==
    \A e \in m_block_connector_map :
        \E c \in 1..Len(ids.connectors) : ids.connectors[c] = e[2]

----------------------------------------------------------------------------
(* XML persistence: Network.write_xml / Network.read_xml and the write_xml /
   read_xml methods of Block, Socket, Connector and Connector.Segment.

   A document is the tree of elements that QXmlStreamWriter produces; every
   value in it is text.  Text is a sequence of characters, a number is
   written as its digits and read back from them. *)

DigitChars == <<"0", "1", "2", "3", "4", "5", "6", "7", "8", "9">>

IsDigit(c) == \E d \in 1..10 : DigitChars[d] = c

DigitValue(c) == (CHOOSE d \in 1..10 : DigitChars[d] = c) - 1

\* the decimal digits of a natural number
RECURSIVE DigitsOf(_)
DigitsOf(n) ==
    IF n < 10 THEN <<DigitChars[n + 1]>>
    ELSE DigitsOf(n \div 10) \o <<DigitChars[(n % 10) + 1]>>

\* the natural number written by a sequence of digits
RECURSIVE ValueOf(_)
ValueOf(s) ==
    IF s = <<>> THEN 0
    ELSE 10 * ValueOf(SubSeq(s, 1, Len(s) - 1)) + DigitValue(s[Len(s)])

RECURSIVE StripTrailingZeros(_)
StripTrailingZeros(s) ==
    IF s # <<>> /\ s[Len(s)] = "0" THEN StripTrailingZeros(SubSeq(s, 1, Len(s) - 1))
    ELSE s

RECURSIVE PadLeft(_, _)
PadLeft(s, width) == IF Len(s) >= width THEN s ELSE PadLeft(<<"0">> \o s, width)

\* a length of n units is the float n / Pixel, that is 4 * n millionths
MicroPerUnit == Million \div Pixel

\* f"{x}" of a float x (str(x), the shortest text that reads back as x):
\* fixed notation with at least one decimal from 0.0001 on, exponent
\* notation below
FormatFloat(n) ==
    LET micro == MicroPerUnit * (IF n < 0 THEN -n ELSE n)
        sign == IF n < 0 THEN <<"-">> ELSE <<>>
        frac == StripTrailingZeros(PadLeft(DigitsOf(micro % Million), 6))
        digs == DigitsOf(micro)
        mant == StripTrailingZeros(Tail(digs))
    IN  IF micro = 0 THEN <<"0", ".", "0">>
        ELSE IF micro >= 100
        THEN sign \o DigitsOf(micro \div Million) \o <<".">>
                  \o (IF frac = <<>> THEN <<"0">> ELSE frac)
        ELSE sign \o <<Head(digs)>>
                  \o (IF mant = <<>> THEN <<>> ELSE <<".">> \o mant)
                  \o <<"e", "-">> \o PadLeft(DigitsOf(7 - Len(digs)), 2)

\* the first index of character c in s, 0 if there is none
IndexOf(s, c) ==
    IF \E i \in 1..Len(s) : s[i] = c
    THEN CHOOSE i \in 1..Len(s) : s[i] = c /\ \A j \in 1..(i - 1) : s[j] # c
    ELSE 0

\* str.partition at position pos (0: the separator is not there)
SplitAt(s, pos) ==
    IF pos = 0 THEN [left |-> s, right |-> <<>>, found |-> FALSE]
    ELSE [left |-> SubSeq(s, 1, pos - 1), right |-> SubSeq(s, pos + 1, Len(s)),
          found |-> TRUE]

Partition(s, c) == SplitAt(s, IndexOf(s, c))

\* an optional sign and what follows it
SignOf(s) ==
    [neg |-> s # <<>> /\ Head(s) = "-",
     digits |-> IF s # <<>> /\ Head(s) \in {"-", "+"} THEN Tail(s) ELSE s]

AllDigits(s) == \A i \in 1..Len(s) : IsDigit(s[i])

\* the value, in units, of the digits ip.fp times ten to the power e
\* (lengths finer than a unit are cut)
UnitsOf(ip, fp, e) ==
    (IF e - Len(fp) + 6 >= 0
     THEN ValueOf(ip \o fp) * (10 ^ (e - Len(fp) + 6))
     ELSE ValueOf(ip \o fp) \div (10 ^ (Len(fp) - e - 6))) \div MicroPerUnit

FloatOfParts(neg, d, e, has_exp) ==
    IF /\ Len(d.left) + Len(d.right) > 0
       /\ AllDigits(d.left) /\ AllDigits(d.right) /\ AllDigits(e.digits)
       /\ has_exp => (e.digits # <<>>)
    THEN [ok |-> TRUE,
          value |-> (IF neg THEN -1 ELSE 1)
                    * UnitsOf(d.left, d.right,
                              (IF e.neg THEN -1 ELSE 1) * ValueOf(e.digits))]
    ELSE [ok |-> FALSE, value |-> 0]

FloatOfMantissa(m, e, has_exp) == FloatOfParts(m.neg, Partition(m.digits, "."), e, has_exp)

FloatOfExponent(me) == FloatOfMantissa(SignOf(me.left), SignOf(me.right), me.found)

\* float(text): blanks around the number are ignored; sign, digits, an
\* optional fraction and an optional exponent; anything else is a ValueError
ParseFloat(text) == FloatOfExponent(Partition(Strip(text), "e"))

\* QXmlStreamWriter writes the markup characters of an attribute value or
\* of a text as entity references
EscapeChar(c) ==
    IF c = "&" THEN <<"&", "a", "m", "p", ";">>
    ELSE IF c = "<" THEN <<"&", "l", "t", ";">>
    ELSE IF c = ">" THEN <<"&", "g", "t", ";">>
    ELSE IF c = "\"" THEN <<"&", "q", "u", "o", "t", ";">>
    ELSE <<c>>

RECURSIVE Escape(_)
Escape(s) == IF s = <<>> THEN <<>> ELSE EscapeChar(Head(s)) \o Escape(Tail(s))

\* QXmlStreamReader resolves the entity references again
EntityChar(name) ==
    IF name = <<"a", "m", "p">> THEN <<"&">>
    ELSE IF name = <<"l", "t">> THEN <<"<">>
    ELSE IF name = <<"g", "t">> THEN <<">">>
    ELSE IF name = <<"q", "u", "o", "t">> THEN <<"\"">>
    ELSE <<>>

RECURSIVE Unescape(_)
Unescape(s) ==
    IF s = <<>> THEN <<>>
    ELSE IF Head(s) = "&" /\ IndexOf(s, ";") # 0
    THEN EntityChar(SubSeq(s, 2, IndexOf(s, ";") - 1))
             \o Unescape(SubSeq(s, IndexOf(s, ";") + 1, Len(s)))
    ELSE <<Head(s)>> \o Unescape(Tail(s))

\* an element: its tag, the value of its name attribute, its text, its children
Element(tag, name, text, children) ==
    [tag |-> tag, name |-> name, text |-> text, children |-> children]

\* writer.writeStartElement(tag); writer.writeAttribute("name", name); ...
NamedElement(tag, name, children) == Element(tag, Escape(name), <<>>, children)

\* writer.writeTextElement(tag, text)
TextElement(tag, text) == Element(tag, <<>>, Escape(text), <<>>)

\* writer.writeComment(text): the reader passes over it
CommentTag == "!--"
Comment(text) == Element(CommentTag, <<>>, <<text>>, <<>>)

NoDocument == Element("", <<>>, <<>>, <<>>)

\* reader.attributes().value("name")
NameAttribute(elem) == Unescape(elem.name)

\* reader.readElementText()
ReadElementText(elem) == Unescape(elem.text)

\* the text of a constant of the format
Text(word) == <<word>>

\* _encode_point: f"{point.x()},{point.y()}"
EncodePoint(point) == FormatFloat(point.x) \o <<",">> \o FormatFloat(point.y)

\* the parts of str.split(",")
RECURSIVE SplitComma(_)
SplitComma(s) ==
    IF IndexOf(s, ",") = 0 THEN <<s>>
    ELSE <<SubSeq(s, 1, IndexOf(s, ",") - 1)>>
             \o SplitComma(SubSeq(s, IndexOf(s, ",") + 1, Len(s)))

PointOfFloats_Swapped(x, y) ==
    IF x.ok /\ y.ok THEN [ok |-> TRUE, value |-> Point(y.value, x.value)]
    ELSE [ok |-> FALSE, value |-> Point(0, 0)]

\* QPointF(x, y) of the two floats, a ValueError unless both are numbers
PointOfFloats(x, y) ==
    IF x.ok /\ y.ok THEN [ok |-> TRUE, value |-> Point(x.value, y.value)]
    ELSE [ok |-> FALSE, value |-> Point(0, 0)]

\* x, y = map(float, parts): a ValueError unless there are two parts
PointOfParts(parts) ==
    IF Len(parts) = 2 THEN PointOfFloats(ParseFloat(parts[1]), ParseFloat(parts[2]))
    ELSE [ok |-> FALSE, value |-> Point(0, 0)]

\* _decode_point: x, y = map(float, pos.split(","))
DecodePoint(pos) == PointOfParts(SplitComma(pos))

OrientationText(o) == Text(IF o = Horizontal THEN "Horizontal" ELSE "Vertical")

\* Socket.write_xml
SocketWriteXml(socket) ==
    NamedElement("Socket", socket.m_name,
        <<TextElement("Position", EncodePoint(socket.m_pos)),
          TextElement("Orientation", OrientationText(socket.m_orientation)),
          TextElement("Inlet", Text(IF socket.m_inlet THEN "true" ELSE "false"))>>)

\* Block.write_xml (m_properties is empty in the networks looked at)
BlockWriteXml(block) ==
    NamedElement("Block", block.m_name,
        <<TextElement("Position", EncodePoint(block.m_pos)),
          TextElement("Size", EncodePoint(Point(block.m_size.w, block.m_size.h)))>>
        \o (IF block.m_sockets # <<>>
            THEN <<Comment("Sockets"),
                   Element("Sockets", <<>>, <<>>,
                           [i \in 1..Len(block.m_sockets) |->
                               SocketWriteXml(block.m_sockets[i])])>>
            ELSE <<>>))

\* Connector.Segment.write_xml
SegmentWriteXml(segment) ==
    Element("Segment", <<>>, <<>>,
        <<TextElement("Orientation", OrientationText(segment.m_direction)),
          TextElement("Offset", FormatFloat(segment.m_offset))>>)

\* Connector.write_xml
ConnectorWriteXml(connector) ==
    NamedElement("Connector", connector.m_name,
        (IF connector.m_source_socket # <<>>
         THEN <<TextElement("Source", connector.m_source_socket)>> ELSE <<>>)
        \o (IF connector.m_target_socket # <<>>
            THEN <<TextElement("Target", connector.m_target_socket)>> ELSE <<>>)
        \o (IF connector.m_segments # <<>>
            THEN <<Comment("Connector segments (between start and end lines)"),
                   Element("Segments", <<>>, <<>>,
                           [i \in 1..Len(connector.m_segments) |->
                               SegmentWriteXml(connector.m_segments[i])])>>
            ELSE <<>>))

\* Network.write_xml
NetworkWriteXml(blocks, connectors) ==
    Element("BlockMod", <<>>, <<>>,
        (IF blocks # <<>>
         THEN <<Comment("Blocks"),
                Element("Blocks", <<>>, <<>>,
                        [i \in 1..Len(blocks) |-> BlockWriteXml(blocks[i])])>>
         ELSE <<>>)
        \o (IF connectors # <<>>
            THEN <<Comment("Connectors"),
                   Element("Connectors", <<>>, <<>>,
                           [i \in 1..Len(connectors) |->
                               ConnectorWriteXml(connectors[i])])>>
            ELSE <<>>))

\* the result of a read: the object read so far, and the error that ended it
Read(value) == [error |-> "", value |-> value]
ReadError(r, error) == [r EXCEPT !.error = error]

\* self.m_pos = self._decode_point(pos)
SetPos(r, pos, error) ==
    IF pos.ok THEN [r EXCEPT !.value.m_pos = pos.value] ELSE ReadError(r, error)

\* Socket.read_xml: "Orientation"
SocketSetOrientation(r, text) ==
    IF text \notin {Text("Horizontal"), Text("Vertical")}
    THEN ReadError(r, "Invalid orientation value")
    ELSE [r EXCEPT !.value.m_orientation =
             IF text = Text("Horizontal") THEN Horizontal ELSE Vertical]

\* Socket.read_xml: "Inlet"
SocketSetInlet(r, text) ==
    IF text \notin {Text("true"), Text("false")}
    THEN ReadError(r, "Invalid inlet value")
    ELSE [r EXCEPT !.value.m_inlet = (text = Text("true"))]

\* Socket.read_xml: one element inside <Socket>
SocketReadElement(r, c) ==
    IF c.tag = CommentTag THEN r
    ELSE IF c.tag = "Position"
    THEN SetPos(r, DecodePoint(ReadElementText(c)), "Invalid point format")
    ELSE IF c.tag = "Orientation" THEN SocketSetOrientation(r, ReadElementText(c))
    ELSE IF c.tag = "Inlet" THEN SocketSetInlet(r, ReadElementText(c))
    ELSE ReadError(r, "Found unknown element in Socket tag")

\* Socket.read_xml, the loop over the elements inside <Socket>
RECURSIVE SocketReadFrom(_, _, _)
SocketReadFrom(children, i, r) ==
    IF i > Len(children) \/ r.error # "" THEN r
    ELSE SocketReadFrom(children, i + 1, SocketReadElement(r, children[i]))

\* Socket(); socket.read_xml(reader)
SocketReadXml(elem) ==
    SocketReadFrom(elem.children, 1,
                   Read(Socket(NameAttribute(elem), Point(0, 0), Horizontal, FALSE)))

\* items.append(item), unless reading the item failed
AppendRead(r, item) ==
    IF item.error # "" THEN ReadError(r, item.error)
    ELSE [r EXCEPT !.value = Append(r.value, item.value)]

\* Block._read_list: every <Socket> inside <Sockets> is appended
RECURSIVE ReadList(_, _, _)
ReadList(children, i, r) ==
    IF i > Len(children) \/ r.error # "" THEN r
    ELSE ReadList(children, i + 1,
                  IF children[i].tag = "Socket"
                  THEN AppendRead(r, SocketReadXml(children[i])) ELSE r)

\* Block.read_xml: "Size"
BlockSetSize(r, pos) ==
    IF pos.ok THEN [r EXCEPT !.value.m_size = [w |-> pos.value.x, h |-> pos.value.y]]
    ELSE ReadError(r, "ValueError")

\* Block.read_xml: "Sockets"
BlockSetSockets(r, sockets) ==
    IF sockets.error # "" THEN ReadError(r, sockets.error)
    ELSE [r EXCEPT !.value.m_sockets = sockets.value]

\* Block.read_xml: one element inside <Block> (no property is kept in the
\* model of a block)
BlockReadElement(r, c) ==
    IF c.tag = CommentTag THEN r
    ELSE IF c.tag = "Position"
    THEN SetPos(r, DecodePoint(ReadElementText(c)), "ValueError")
    ELSE IF c.tag = "Size" THEN BlockSetSize(r, DecodePoint(ReadElementText(c)))
    ELSE IF c.tag = "Sockets"
    THEN BlockSetSockets(r, ReadList(c.children, 1, Read(r.value.m_sockets)))
    ELSE IF c.tag = "Properties" THEN r
    ELSE ReadError(r, "unknown element in Block tag")

\* Block.read_xml, the loop over the elements inside <Block>
RECURSIVE BlockReadFrom(_, _, _)
BlockReadFrom(children, i, r) ==
    IF i > Len(children) \/ r.error # "" THEN r
    ELSE BlockReadFrom(children, i + 1, BlockReadElement(r, children[i]))

\* Block(); block.read_xml(reader)
BlockReadXml(elem) ==
    BlockReadFrom(elem.children, 1, Read(Block(NameAttribute(elem), Point(0, 0), <<>>)))

\* Connector.Segment.read_xml: "Offset"
SegmentSetOffset(r, offset) ==
    IF offset.ok THEN [r EXCEPT !.value.m_offset = offset.value]
    ELSE ReadError(r, "Invalid offset value in Segment element")

\* Connector.Segment.read_xml: one element inside <Segment>
SegmentReadElement(r, c) ==
    IF c.tag = CommentTag THEN r
    ELSE IF c.tag = "Orientation"
    THEN [r EXCEPT !.value.m_direction =
             IF ReadElementText(c) = Text("Horizontal") THEN Horizontal ELSE Vertical]
    ELSE IF c.tag = "Offset" THEN SegmentSetOffset(r, ParseFloat(ReadElementText(c)))
    ELSE ReadError(r, "Found unknown element in Segment element")

\* Connector.Segment.read_xml, the loop over the elements inside <Segment>
RECURSIVE SegmentReadFrom(_, _, _)
SegmentReadFrom(children, i, r) ==
    IF i > Len(children) \/ r.error # "" THEN r
    ELSE SegmentReadFrom(children, i + 1, SegmentReadElement(r, children[i]))

\* Connector.Segment(); segment.read_xml(reader)
SegmentReadXml(elem) == SegmentReadFrom(elem.children, 1, Read(Segment(Horizontal, 0)))

\* Connector._read_segments: every <Segment> inside <Segments> is appended
RECURSIVE ReadSegments(_, _, _)
ReadSegments(children, i, r) ==
    IF i > Len(children) \/ r.error # "" THEN r
    ELSE ReadSegments(children, i + 1,
                      IF children[i].tag = "Segment"
                      THEN AppendRead(r, SegmentReadXml(children[i])) ELSE r)

\* Connector.read_xml: "Segments"
ConnectorSetSegments(r, segments) ==
    IF segments.error # "" THEN ReadError(r, segments.error)
    ELSE [r EXCEPT !.value.m_segments = segments.value]

\* Connector.read_xml: one element inside <Connector>
ConnectorReadElement(r, c) ==
    IF c.tag = CommentTag THEN r
    ELSE IF c.tag = "Source"
    THEN [r EXCEPT !.value.m_source_socket = ReadElementText(c)]
    ELSE IF c.tag = "Target"
    THEN [r EXCEPT !.value.m_target_socket = ReadElementText(c)]
    ELSE IF c.tag = "Segments"
    THEN ConnectorSetSegments(r, ReadSegments(c.children, 1, Read(r.value.m_segments)))
    ELSE ReadError(r, "Found unknown element in Connector tag")

\* Connector.read_xml, the loop over the elements inside <Connector>
RECURSIVE ConnectorReadFrom(_, _, _)
ConnectorReadFrom(children, i, r) ==
    IF i > Len(children) \/ r.error # "" THEN r
    ELSE ConnectorReadFrom(children, i + 1, ConnectorReadElement(r, children[i]))

\* Connector(); connector.read_xml(reader)
ConnectorReadXml(elem) ==
    ConnectorReadFrom(elem.children, 1,
                      Read(Connector(NameAttribute(elem), <<>>, <<>>, <<>>)))

\* Network._read_blocks: every <Block> inside <Blocks> is appended
RECURSIVE ReadBlocks(_, _, _)
ReadBlocks(children, i, r) ==
    IF i > Len(children) \/ r.error # "" THEN r
    ELSE ReadBlocks(children, i + 1,
                    IF children[i].tag = "Block"
                    THEN AppendRead(r, BlockReadXml(children[i])) ELSE r)

\* Network._read_connectors: every <Connector> inside <Connectors> is appended
RECURSIVE ReadConnectors(_, _, _)
ReadConnectors(children, i, r) ==
    IF i > Len(children) \/ r.error # "" THEN r
    ELSE ReadConnectors(children, i + 1,
                        IF children[i].tag = "Connector"
                        THEN AppendRead(r, ConnectorReadXml(children[i])) ELSE r)

\* Network.read_xml: self.m_blocks or self.m_connectors after a section
NetworkSetSection(r, section, items) ==
    IF items.error # "" THEN ReadError(r, items.error)
    ELSE IF section = "Blocks" THEN [r EXCEPT !.value.blocks = items.value]
    ELSE [r EXCEPT !.value.connectors = items.value]

\* Network.read_xml: one section inside <BlockMod>
NetworkReadElement(r, c) ==
    IF c.tag = CommentTag THEN r
    ELSE IF c.tag = "Blocks"
    THEN NetworkSetSection(r, "Blocks", ReadBlocks(c.children, 1, Read(r.value.blocks)))
    ELSE IF c.tag = "Connectors"
    THEN NetworkSetSection(r, "Connectors",
                           ReadConnectors(c.children, 1, Read(r.value.connectors)))
    ELSE ReadError(r, "Unknown tag")

\* Network.read_xml, the loop over the sections inside <BlockMod>; r.value is
\* the network read into
RECURSIVE NetworkReadFrom(_, _, _)
NetworkReadFrom(children, i, r) ==
    IF i > Len(children) \/ r.error # "" THEN r
    ELSE NetworkReadFrom(children, i + 1, NetworkReadElement(r, children[i]))

\* Network.read_xml into the network (blocks, connectors)
NetworkReadXml(doc, blocks, connectors) ==
    IF doc.tag # "BlockMod"
    THEN ReadError(Read([blocks |-> blocks, connectors |-> connectors]),
                   "Expected BlockMod XML tag.")
    ELSE NetworkReadFrom(doc.children, 1,
                         Read([blocks |-> blocks, connectors |-> connectors]))

----------------------------------------------------------------------------
(* SpecXml: networks are written with Network.write_xml and read back into a
   fresh Network with Network.read_xml *)

\* the largest number of blocks, of sockets in a block, of connectors and of
\* segments in a connector
MaxItems == 2

\* the largest number of writes and reads in a row
MaxTransfers == 4

\* lengths: zero, values written in exponent notation, fractions, negative
\* values, whole grid cells
XmlLengths ==
    <<0, Px(8), -3, Px(100) + 125000, 1, -Px(24), 26, GridSpacing + 31250>>

\* names: plain, with blanks around, with markup characters, empty
XmlNames ==
    <<<<"A">>, <<" ", "b", " ">>, <<"a", "&", "<", "b">>, <<>>,
      <<"\"", ">", ";">>, <<"B", "1">>>>

Seeds == 1..Len(XmlLengths)

LengthAt(i) == XmlLengths[((i - 1) % Len(XmlLengths)) + 1]

NameAt(i) == XmlNames[((i - 1) % Len(XmlNames)) + 1]

OrientationAt(i) == IF i % 2 = 0 THEN Horizontal ELSE Vertical

XmlSocket(i) ==
    Socket(NameAt(i + 2), Point(LengthAt(i), LengthAt(i + 3)), OrientationAt(i),
           (i \div 2) % 2 = 0)

XmlBlock(i, sockets) ==
    [Block(NameAt(i), Point(LengthAt(i + 1), LengthAt(i + 2)),
           [s \in 1..sockets |-> XmlSocket(i + s)])
        EXCEPT !.m_size = [w |-> LengthAt(i + 3), h |-> LengthAt(i)]]

\* source and target are texts of any kind, the empty text among them
XmlConnector(i, segments) ==
    Connector(NameAt(i + 1),
              IF i % 3 = 0 THEN <<>> ELSE NameAt(i) \o <<".">> \o NameAt(i + 2),
              IF i % 4 = 0 THEN <<>> ELSE NameAt(i + 1) \o <<".">> \o NameAt(i + 3),
              [s \in 1..segments |-> Segment(OrientationAt(i + s), LengthAt(i + s))])

XmlBlockLists ==
    {[b \in 1..n |-> XmlBlock(seed + b, sockets)] :
        n \in 0..MaxItems, seed \in Seeds, sockets \in 0..MaxItems}

XmlConnectorLists ==
    {[c \in 1..n |-> XmlConnector(seed + c, segments)] :
        n \in 0..MaxItems, seed \in Seeds, segments \in 0..MaxItems}

InitXml ==
    /\ m_blocks \in XmlBlockLists
    /\ m_connectors \in XmlConnectorLists
    /\ m_segment_idx = -1
    /\ moves = 0
    /\ last = NoOp
    /\ before = [blocks |-> m_blocks, connectors |-> m_connectors]
    /\ hist = <<>>
    /\ ret = [doc |-> NoDocument, first |-> NoDocument]
    /\ old_blocks = m_blocks
    /\ m_currently_connecting = FALSE
    /\ m_block_connector_map = {}
    /\ ids = NoIds

\* network.write_xml(fname)
WriteXml ==
    LET doc == NetworkWriteXml(m_blocks, m_connectors) IN
    /\ moves < MaxTransfers
    /\ last.op # "write_xml"
    /\ last.error = ""
    /\ ret' = [doc |-> doc, first |-> IF ret.first = NoDocument THEN doc ELSE ret.first]
    /\ moves' = moves + 1
    /\ last' = [NoOp EXCEPT !.op = "write_xml"]
    /\ hist' = Append(hist, "write_xml")
    /\ UNCHANGED <<m_blocks, m_connectors, m_segment_idx, before,
                   old_blocks, m_currently_connecting, m_block_connector_map, ids>>

\* network = Network(); network.read_xml(fname)
ReadXml ==
    LET r == NetworkReadXml(ret.doc, <<>>, <<>>) IN
    /\ moves < MaxTransfers
    /\ last.op = "write_xml"
    /\ m_blocks' = r.value.blocks
    /\ m_connectors' = r.value.connectors
    /\ moves' = moves + 1
    /\ last' = [NoOp EXCEPT !.op = "read_xml", !.ok = (r.error = ""),
                            !.error = r.error]
    /\ hist' = Append(hist, "read_xml")
    /\ UNCHANGED <<m_segment_idx, before, ret,
                   old_blocks, m_currently_connecting, m_block_connector_map, ids>>

NextXml == WriteXml \/ ReadXml

SpecXml == InitXml /\ [][NextXml]_vars

(* C21: a network that was written and read back into a fresh Network has
   the same blocks in the same order (name, position, size and, for every
   socket, name, position, orientation and inlet flag) and the same
   connectors in the same order (name, source, target and the list of
   segment directions and offsets); writing it again gives the document of
   the first write. *)
C21_RoundTrip ==
    /\ (last.op = "read_xml") =>
          /\ last.error = ""
          /\ m_blocks = before.blocks
          /\ m_connectors = before.connectors
    /\ (last.op = "write_xml") => ret.doc = ret.first

\* a network with markup characters in a name, a connector without a source,
\* and an offset written in exponent notation has been written, read and
\* written again
C21_Witness ==
    /\ hist = <<"write_xml", "read_xml", "write_xml">>
    /\ \E b \in 1..Len(m_blocks) :
          /\ \E i \in 1..Len(m_blocks[b].m_name) : m_blocks[b].m_name[i] = "&"
          /\ Len(m_blocks[b].m_sockets) = MaxItems
    /\ \E c \in 1..Len(m_connectors) :
          /\ m_connectors[c].m_source_socket = <<>>
          /\ \E s \in 1..Len(m_connectors[c].m_segments) :
                m_connectors[c].m_segments[s].m_offset \in {-3, 1}

=============================================================================
